---- MODULE Spec2Model ----
(***************************************************************************)
(* State-machine model of the research orchestration core:                 *)
(*   - run_iterative_study      (app/agents/iterative_researcher.py)        *)
(*   - execute_deep_research    (app/agents/deep_pipeline.py)               *)
(*   - the job tracker, the UI worker thread, the SIGTERM handler and the   *)
(*     resume route (app/services/job_tracker.py,                           *)
(*     app/services/research_orchestrator.py, app/main.py,                  *)
(*     app/routes/ui_api.py, app/services/gcs_client.py)                    *)
(*                                                                         *)
(* Texts (syntheses, briefings) are modelled by natural numbers: 0 is the   *)
(* empty string, a positive number identifies one non-empty text.           *)
(***************************************************************************)
EXTENDS Integers, Sequences, FiniteSets, TLC

VARIABLES
    \* ---- execute_deep_research (one DEEP run) ----
    pc,                 \* position of the pipeline coroutine
    study_plan,         \* result.study_plan: the planned studies (<<>> = not set)
    tasks,              \* the coroutines of the current asyncio.gather batch
    batch,              \* "none" | "studies" | "gap": which fan-out `tasks` is
    sem,                \* free permits of sem = asyncio.Semaphore(MAX_CONCURRENT_STUDIES)
    studies,            \* result.studies: sequence of StudyResult
    master_synthesis,   \* result.master_synthesis (0 = "")
    synthesis_score,    \* result.synthesis_score, in tenths (0 = 0.0)
    refine_round,       \* loop variable of `for refine_round in range(max_refinement_rounds)`
    refinement_rounds,  \* result.refinement_rounds
    n_regens,           \* number of refinement synthesis calls issued (instrumentation)
    errors_left,        \* transient errors the environment may still inject
    killed_at,          \* pipeline position at which the process was killed ("" = alive)
    resume_response,    \* HTTP answer of the last resume request for the killed run
    \* ---- process-wide state: tracker, threads, durable store, signal handler ----
    jobs,               \* job_tracker._jobs: job_id -> JobInfo (NoJob = not in the dict)
    threads,            \* daemon worker threads started by the routes
    checkpoints,        \* GCS blobs results/{job_id}_checkpoint.json (durable)
    meta,               \* GCS blobs results/{job_id}_meta.json, field "status" (durable)
    proc,               \* "up" | "sigterm" (handler running) | "down" (exited)
    deep_jobs,          \* the handler's local list deep_jobs (set at the signal)
    marked,             \* the jobs the handler's for loop has gone through
    \* ---- job_tracker._lock and the live fields of the tracked job ----
    lock,               \* owner of job_tracker._lock: "free" or a thread
    at,                 \* thread -> its position in the tracker-related code
    live,               \* JobInfo fields phase, study_progress, research_stats
    \* ---- stand-alone units ----
    llm_text,           \* json_utils: the text handed to parse_json_response
    json_value,         \* json_utils: what parse_json_response returned
    user_text,          \* depth: the keywords that occur in the lower-cased text
    depth,              \* depth: what detect_depth returned ("" = not called)
    qa,                 \* Phase 5 of execute_deep_research: clusters, cluster coroutines, results
    timing,             \* JobInfo.phase_timings and _last_phase_key of one job, and the clock
    upload              \* _upload_with_retry of the job's worker: state and loop variable `attempt`

pipeVars == <<pc, tasks, batch, sem, studies, master_synthesis, synthesis_score,
              refine_round, refinement_rounds, n_regens, errors_left, killed_at,
              resume_response, study_plan>>
trackerVars == <<lock, at, live>>
unitVars == <<llm_text, json_value, user_text, depth, qa, timing, upload>>
procVars == <<jobs, threads, checkpoints, meta, proc, deep_jobs, marked, trackerVars,
              unitVars>>
vars == <<pipeVars, procVars>>

(***************************************************************************)
(* Program constants                                                       *)
(***************************************************************************)
MAX_CONCURRENT_STUDIES == 3
ROUND_MAX_RETRIES == 2
ROUND_RETRY_BACKOFF == 5
MAX_CONCURRENT_QA == 3
MAX_RETRIES == 3         \* research_orchestrator: attempts of _upload_with_retry
MaxQAClusters == 5       \* clusters = clusters[:5]
REFINEMENT_THRESHOLD == 80
DefaultMaxRoundsPerStudy == 3
GapStudyMaxRounds == 2
max_refinement_rounds == 2
MaxGapQuestionsPerRound == 3
MaxGapStudies == 6

(***************************************************************************)
(* Bounds of the model                                                     *)
(***************************************************************************)
MaxStudies == 2          \* most studies the planner returns
MaxQuestions == 2        \* most questions of one planned study
MaxGaps == 4             \* most gap questions one gap-analyzer answer lists
MaxEvalGaps == 1         \* most actionable gaps one evaluation lists
MaxRoundsParam == 3      \* largest max_rounds passed to a stand-alone study
MaxPipelineTransients == 0   \* transient errors injected into one pipeline run
MaxStudyTransients == 3      \* transient errors injected into a stand-alone study
MaxJobs == 2             \* job ids
MaxStats == 1            \* stats pushes of the worker thread
MaxThreads == 2          \* worker threads alive at once
MaxTokens == 5           \* most tokens of one JSON document
MaxProse == 1            \* most prose words in front of the JSON
MaxFences == 2           \* most markdown fences wrapped around the JSON
MaxKeywords == 2         \* most depth keywords occurring in one text
MaxBatch == 4            \* most studies of a batch larger than the semaphore
MaxClusters == 2         \* longest cluster list drawn with every kind of entry
MaxTimingCalls == 4      \* most progress callbacks of one job that carry a step

Min(a, b) == IF a < b THEN a ELSE b

RECURSIVE SumSeq(_)
SumSeq(s) == IF s = <<>> THEN 0 ELSE Head(s) + SumSeq(Tail(s))

RECURSIVE SelectNonEmpty(_)
\* [s for s in results if s.synthesis]
SelectNonEmpty(s) ==
    IF s = <<>> THEN <<>>
    ELSE IF Head(s).synthesis # 0 THEN <<Head(s)>> \o SelectNonEmpty(Tail(s))
    ELSE SelectNonEmpty(Tail(s))

(***************************************************************************)
(* Data                                                                    *)
(***************************************************************************)
JobIds == 1 .. MaxJobs
NoJob == [status |-> "none", error |-> ""]
NoCheckpoint == "none"
PipelineJob == 1

\* A worker thread is known by its job_id, the route that started it and its
\* position in _run; `threads` counts the live threads of each description.
ThreadKeys == JobIds \X {"run", "resume"} \X {"started", "running", "published"}
NoThreads == [k \in ThreadKeys |-> 0]
Scores == {78, 85}

\* A coroutine of a gather batch, before `async with sem` admits it.
\* study_index is 0-based as in the code; nq = len(questions).
NewTask(study_index, nq, max_rounds) ==
    [st |-> "waiting", study_index |-> study_index, max_rounds |-> max_rounds,
     round_idx |-> 0, nq |-> nq, retry |-> 0, wait |-> 0, rounds |-> 0,
     synthesis |-> 0]

\* The text a study's synthesizer writes: one text per study index.
SynthesisText(t) == t.study_index + 1

Settled(t) == t.st \in {"returned", "raised"}
AllSettled == \A i \in DOMAIN tasks : Settled(tasks[i])

\* Researcher calls of task t that are in flight: the ParallelAgent of the
\* current round runs one researcher per question.
ResearchersOf(t) == IF t.st = "research" THEN t.nq ELSE 0
ResearchersInFlight ==
    SumSeq([i \in DOMAIN tasks |-> ResearchersOf(tasks[i])])
StudiesAdmitted ==
    Cardinality({i \in DOMAIN tasks :
                    tasks[i].st \in {"deep", "research", "gap", "synth"}})

\* Release that keeps the permit of a study that raised or returned.
ReleaseKeepsPermit == sem' = sem

\* Leaving `async with sem:` gives the permit back; a stand-alone
\* run_iterative_study (batch = "none") holds none.
Release == sem' = IF batch = "none" THEN sem ELSE sem + 1

(***************************************************************************)
(* run_iterative_study                                                     *)
(***************************************************************************)
\* questions = study.get("questions", []); if not questions: questions = [title]
InitialQuestions(nq) == IF nq = 0 THEN 1 ELSE nq

\* Start of the first round of run_iterative_study for task i.
EnterStudy(t) ==
    [t EXCEPT !.st = "research", !.round_idx = 0,
              !.nq = InitialQuestions(t.nq), !.retry = 0, !.wait = 0]

\* The value run_iterative_study returns.
ReturnedTask(t, text) ==
    [t EXCEPT !.st = "returned", !.synthesis = text, !.round_idx = 0,
              !.nq = 0, !.retry = 0, !.wait = 0]

\* An exception leaves run_iterative_study; inside _study_with_sem it is
\* caught and replaced by StudyResult(title=..., angle=...).
RaisedTask(t) ==
    [t EXCEPT !.st = "raised", !.synthesis = 0, !.rounds = 0, !.round_idx = 0,
              !.nq = 0, !.retry = 0, !.wait = 0]

\* RetryOrRaise with one attempt more than range(ROUND_MAX_RETRIES + 1) gives.
RetryOrRaiseOnceMore(i, is_retryable) ==
    LET t == tasks[i] IN
    IF is_retryable /\ t.retry <= ROUND_MAX_RETRIES
    THEN /\ tasks' = [tasks EXCEPT ![i] = [t EXCEPT !.retry = t.retry + 1,
                                                    !.wait = ROUND_RETRY_BACKOFF * (t.retry + 1)]]
         /\ UNCHANGED sem
    ELSE /\ tasks' = [tasks EXCEPT ![i] = RaisedTask(t)]
         /\ Release

\* except Exception as e: a transient error while retry < ROUND_MAX_RETRIES is
\* retried after asyncio.sleep(wait), wait = ROUND_RETRY_BACKOFF * (retry + 1);
\* any other error is re-raised. `wait` keeps the last sleep of the call.
RetryOrRaise(i, is_retryable) ==
    LET t == tasks[i] IN
    IF is_retryable /\ t.retry < ROUND_MAX_RETRIES
    THEN /\ tasks' = [tasks EXCEPT ![i] = [t EXCEPT !.retry = t.retry + 1,
                                                    !.wait = ROUND_RETRY_BACKOFF * (t.retry + 1)]]
         /\ UNCHANGED sem
    ELSE /\ tasks' = [tasks EXCEPT ![i] = RaisedTask(t)]
         /\ Release

\* The error an external call raises: transient ones are bounded by errors_left.
InjectError(is_retryable) ==
    /\ is_retryable => errors_left > 0
    /\ errors_left' = IF is_retryable THEN errors_left - 1 ELSE errors_left

\* AfterRound with the last-round test off by one.
AfterRoundOffByOne(t) ==
    IF t.round_idx >= t.max_rounds
    THEN [t EXCEPT !.st = "synth", !.rounds = t.rounds + 1, !.retry = 0, !.wait = 0, !.nq = 0]
    ELSE [t EXCEPT !.st = "gap", !.rounds = t.rounds + 1, !.retry = 0, !.wait = 0]

\* After result.rounds.append(round_findings): last round goes to synthesis.
AfterRound(t) ==
    IF t.round_idx >= t.max_rounds - 1
    THEN [t EXCEPT !.st = "synth", !.rounds = t.rounds + 1, !.retry = 0, !.wait = 0, !.nq = 0]
    ELSE [t EXCEPT !.st = "gap", !.rounds = t.rounds + 1, !.retry = 0, !.wait = 0]

\* The round's research call (all researchers of the round) succeeds.
ResearchRoundDone(i) ==
    /\ i \in DOMAIN tasks
    /\ tasks[i].st = "research"
    /\ tasks' = [tasks EXCEPT ![i] = AfterRound(tasks[i])]
    /\ UNCHANGED <<pc, batch, sem, studies, master_synthesis, synthesis_score,
                   refine_round, refinement_rounds, n_regens, errors_left,
                   killed_at, resume_response, study_plan, procVars>>

ResearchRoundFails(i, is_retryable) ==
    /\ i \in DOMAIN tasks
    /\ tasks[i].st = "research"
    /\ InjectError(is_retryable)
    /\ RetryOrRaise(i, is_retryable)
    /\ UNCHANGED <<pc, batch, studies, master_synthesis, synthesis_score,
                   refine_round, refinement_rounds, n_regens,
                   killed_at, resume_response, study_plan, procVars>>

\* Gap-analyzer answers after parse_json_response: not a dict (None, a list),
\* or a dict. `escalate` is true, false, absent ("missing"), or a value of
\* another type that Python takes as true ("truthy": "no", 1) or as false
\* ("falsy": null, 0, ""). `gaps` is absent, a list of n question strings
\* ("list"), a list of n other values ("nonstrings"), one string of n
\* characters ("string"), or a non-empty value that cannot be sliced
\* ("scalar": a number, an object).
GapOutputs ==
    {[dict |-> FALSE, escalate |-> "missing", kind |-> "missing", gaps |-> 0]}
    \cup [dict : {TRUE}, escalate : {"true", "missing", "truthy"},
          kind : {"list", "nonstrings", "string", "missing", "scalar"}, gaps : {0}]
    \cup [dict : {TRUE}, escalate : {"false", "falsy"},
          kind : {"list"}, gaps : 0 .. MaxGaps]
    \cup [dict : {TRUE}, escalate : {"false", "falsy"},
          kind : {"nonstrings", "string"}, gaps : 0 .. 1]
    \cup [dict : {TRUE}, escalate : {"false", "falsy"},
          kind : {"missing", "scalar"}, gaps : {0}]

\* gap_data.get("escalate", True) taken as a condition.
Escalates(out) == out.escalate \in {"true", "missing", "truthy"}

\* `not new_questions` for new_questions = gap_data.get("gaps", []).
NoNewQuestions(out) ==
    \/ out.kind = "missing"
    \/ out.kind \in {"list", "nonstrings", "string"} /\ out.gaps = 0

\* AfterGapAnalysis with the gap questions added to the round's questions
\* instead of replacing them.
AfterGapAnalysisKeepsQuestions(t, out) ==
    IF ~out.dict \/ Escalates(out) \/ NoNewQuestions(out)
    THEN [t EXCEPT !.st = "synth", !.retry = 0, !.wait = 0, !.nq = 0]
    ELSE IF out.kind = "scalar" THEN RaisedTask(t)
    ELSE [t EXCEPT !.st = "research", !.round_idx = t.round_idx + 1,
                   !.nq = t.nq + Min(out.gaps, MaxGapQuestionsPerRound), !.retry = 0, !.wait = 0]

\* if not isinstance(gap_data, dict) or gap_data.get("escalate", True): break
\* new_questions = gap_data.get("gaps", []); if not new_questions: break
\* questions = new_questions[:3]     (TypeError for a value without slicing)
AfterGapAnalysis(t, out) ==
    IF ~out.dict \/ Escalates(out) \/ NoNewQuestions(out)
    THEN [t EXCEPT !.st = "synth", !.retry = 0, !.wait = 0, !.nq = 0]
    ELSE IF out.kind = "scalar" THEN RaisedTask(t)
    ELSE [t EXCEPT !.st = "research", !.round_idx = t.round_idx + 1,
                   !.nq = Min(out.gaps, MaxGapQuestionsPerRound), !.retry = 0, !.wait = 0]

GapAnalysisReturns(i, out) ==
    /\ i \in DOMAIN tasks
    /\ tasks[i].st = "gap"
    /\ tasks' = [tasks EXCEPT ![i] = AfterGapAnalysis(tasks[i], out)]
    /\ IF AfterGapAnalysis(tasks[i], out).st = "raised" THEN Release
       ELSE UNCHANGED sem
    /\ UNCHANGED <<pc, batch, studies, master_synthesis, synthesis_score,
                   refine_round, refinement_rounds, n_regens, errors_left,
                   killed_at, resume_response, study_plan, procVars>>

GapAnalysisFails(i, is_retryable) ==
    /\ i \in DOMAIN tasks
    /\ tasks[i].st = "gap"
    /\ InjectError(is_retryable)
    /\ RetryOrRaise(i, is_retryable)
    /\ UNCHANGED <<pc, batch, studies, master_synthesis, synthesis_score,
                   refine_round, refinement_rounds, n_regens,
                   killed_at, resume_response, study_plan, procVars>>

\* The per-study synthesis call ends; its text may be empty.
StudySynthesisReturns(i, nonempty) ==
    /\ i \in DOMAIN tasks
    /\ tasks[i].st = "synth"
    /\ tasks' = [tasks EXCEPT ![i] =
                    ReturnedTask(tasks[i],
                                 IF nonempty THEN SynthesisText(tasks[i]) ELSE 0)]
    /\ Release
    /\ UNCHANGED <<pc, batch, studies, master_synthesis, synthesis_score,
                   refine_round, refinement_rounds, n_regens, errors_left,
                   killed_at, resume_response, study_plan, procVars>>

StudySynthesisFails(i, is_retryable) ==
    /\ i \in DOMAIN tasks
    /\ tasks[i].st = "synth"
    /\ InjectError(is_retryable)
    /\ RetryOrRaise(i, is_retryable)
    /\ UNCHANGED <<pc, batch, studies, master_synthesis, synthesis_score,
                   refine_round, refinement_rounds, n_regens,
                   killed_at, resume_response, study_plan, procVars>>

StudyStep ==
    \E i \in DOMAIN tasks :
        \/ ResearchRoundDone(i)
        \/ \E r \in BOOLEAN : ResearchRoundFails(i, r)
        \/ \E out \in GapOutputs : GapAnalysisReturns(i, out)
        \/ \E r \in BOOLEAN : GapAnalysisFails(i, r)
        \/ \E ne \in BOOLEAN : StudySynthesisReturns(i, ne)
        \/ \E r \in BOOLEAN : StudySynthesisFails(i, r)

(***************************************************************************)
(* A stand-alone run_iterative_study(study_index, study, ..., max_rounds)   *)
(***************************************************************************)
(***************************************************************************)
(* json_utils.parse_json_response over token sequences                     *)
(***************************************************************************)
\* A text is a sequence of tokens: "p" a prose word, "fence" a markdown fence
\* (``` or ```json), "[" "]" "{" "}" the JSON brackets, "n" a scalar with its
\* separator, "k" an object key with its colon.
JsonTokens == {"[", "]", "{", "}", "k", "n"}
None == <<"None">>
Pending == <<"pending">>

RECURSIVE ValueEnd(_, _), ElemsEnd(_, _), MembersEnd(_, _)
\* The index behind the JSON value that starts at s[i]; 0 when there is none.
ValueEnd(s, i) ==
    IF i > Len(s) THEN 0
    ELSE IF s[i] = "n" THEN i + 1
    ELSE IF s[i] = "[" THEN
        IF i + 1 <= Len(s) /\ s[i + 1] = "]" THEN i + 2 ELSE ElemsEnd(s, i + 1)
    ELSE IF s[i] = "{" THEN
        IF i + 1 <= Len(s) /\ s[i + 1] = "}" THEN i + 2 ELSE MembersEnd(s, i + 1)
    ELSE 0
ElemsEnd(s, i) ==
    LET e == ValueEnd(s, i) IN
    IF e = 0 \/ e > Len(s) THEN 0
    ELSE IF s[e] = "]" THEN e + 1
    ELSE ElemsEnd(s, e)
MembersEnd(s, i) ==
    IF i > Len(s) \/ s[i] # "k" THEN 0
    ELSE LET e == ValueEnd(s, i + 1) IN
         IF e = 0 \/ e > Len(s) THEN 0
         ELSE IF s[e] = "}" THEN e + 1
         ELSE MembersEnd(s, e)

\* json.loads(s): the value (kept as its token sequence) when the whole of s
\* is one JSON value, else JSONDecodeError (None here).
json_loads(s) ==
    IF s # <<>> /\ ValueEnd(s, 1) = Len(s) + 1 THEN s ELSE None

\* re.sub(r"```(?:json)?\s*", "", text): every fence is removed.
StripFences(s) == SelectSeq(s, LAMBDA t : t # "fence")

\* re.search(r"\[[\s\S]*\]", cleaned): from the first opening bracket to the
\* last closing one (greedy); <<>> when there is no match.
Search(s, open, close) ==
    LET opens == {i \in DOMAIN s : s[i] = open}
        closes == {i \in DOMAIN s : s[i] = close}
    IN IF opens = {} \/ closes = {} THEN <<>>
       ELSE LET a == CHOOSE i \in opens : \A j \in opens : i <= j
                b == CHOOSE i \in closes : \A j \in closes : i >= j
            IN IF a < b THEN SubSeq(s, a, b) ELSE <<>>

\* parse_json_response(text) on a token sequence: direct parse of the text
\* without fences, then the array pattern, then the object pattern.
parse_json_text(s) ==
    IF s = <<>> THEN None
    ELSE LET cleaned == StripFences(s)
             arr == Search(cleaned, "[", "]")
             obj == Search(cleaned, "{", "}")
         IN IF json_loads(cleaned) # None THEN json_loads(cleaned)
            ELSE IF arr # <<>> /\ json_loads(arr) # None THEN json_loads(arr)
            ELSE IF obj # <<>> /\ json_loads(obj) # None THEN json_loads(obj)
            ELSE None

\* The well-formed JSON arrays and objects of at most MaxTokens tokens.
JsonDocs ==
    {s \in UNION {[1 .. k -> JsonTokens] : k \in 2 .. MaxTokens} :
        s[1] \in {"[", "{"} /\ json_loads(s) # None}

RECURSIVE Repeat(_, _)
Repeat(t, n) == IF n = 0 THEN <<>> ELSE <<t>> \o Repeat(t, n - 1)

\* J wrapped in f markdown fences and preceded by p prose words.
Wrapped(J, p, f) ==
    Repeat("p", p) \o Repeat("fence", f) \o J \o Repeat("fence", f)

\* Texts that hold no well-formed JSON: empty, prose only, fences only,
\* an unclosed array, an unclosed object.
NoJsonTexts ==
    {<<>>, <<"p">>, <<"fence", "fence">>, <<"p", "[", "n">>, <<"{", "k">>,
     <<"fence", "p", "fence">>}

(***************************************************************************)
(* models/depth.detect_depth                                               *)
(***************************************************************************)
DEEP_KEYWORDS ==
    {"deep dive", "comprehensive", "in-depth", "thorough analysis", "detailed research"}
QUICK_KEYWORDS ==
    {"quick research", "brief", "quick look", "short summary", "fast research"}

\* len(kw) of every keyword.
KeywordLen ==
    [kw \in DEEP_KEYWORDS \cup QUICK_KEYWORDS |->
        CASE kw = "deep dive" -> 9
          [] kw = "comprehensive" -> 13
          [] kw = "in-depth" -> 8
          [] kw = "thorough analysis" -> 17
          [] kw = "detailed research" -> 17
          [] kw = "quick research" -> 14
          [] kw = "brief" -> 5
          [] kw = "quick look" -> 10
          [] kw = "short summary" -> 13
          [] kw = "fast research" -> 13]

\* detect_depth(user_text): `kw in lower` over DEEP_KEYWORDS first, then over
\* QUICK_KEYWORDS; kws is the set of keywords that occur in the text.
detect_depth(kws) ==
    IF kws \cap DEEP_KEYWORDS # {} THEN "deep"
    ELSE IF kws \cap QUICK_KEYWORDS # {} THEN "quick"
    ELSE "standard"

\* The texts drawn: those in which at most MaxKeywords keywords occur.
UserTexts ==
    {kws \in SUBSET (DEEP_KEYWORDS \cup QUICK_KEYWORDS) : Cardinality(kws) <= MaxKeywords}

\* Phase 5 has not begun.
QAIdle ==
    qa = [pc |-> "idle", clusters |-> <<>>, tasks |-> <<>>, sem |-> 0,
          qa_clusters |-> <<>>, qa_summary |-> <<>>]

\* JobInfo as create_job leaves it: phase_timings = {}, _last_phase_key = "".
TimingIdle ==
    timing = [phase_timings |-> <<>>, last_phase_key |-> "", now |-> 0,
              finalized |-> FALSE]

\* _upload_with_retry has not been called.
UploadIdle == upload = [st |-> "idle", attempt |-> 0]

UnitsIdle ==
    /\ llm_text = <<>>
    /\ json_value = Pending
    /\ user_text = {}
    /\ depth = ""
    /\ QAIdle
    /\ TimingIdle
    /\ UploadIdle

\* The threads that touch the tracked job: the job's worker thread (progress
\* callback, stats pusher) and a request thread serving GET /api/status.
TrackerThreads == {"worker", "request"}
StudyStates == {"pending", "running", "done", "failed"}
Phases == {"", "planning", "studies", "synthesis"}
NoProgress == <<>>

\* JobInfo as create_job leaves it; no thread is inside the tracker.
TrackerIdle ==
    /\ lock = "free"
    /\ at = [t \in TrackerThreads |-> "idle"]
    /\ live = [phase |-> "", study_progress |-> NoProgress, research_stats |-> 0]

InitProc ==
    /\ jobs = [j \in JobIds |-> NoJob]
    /\ threads = NoThreads
    /\ checkpoints = [j \in JobIds |-> NoCheckpoint]
    /\ meta = [j \in JobIds |-> ""]
    /\ proc = "up"
    /\ deep_jobs = {}
    /\ marked = {}
    /\ TrackerIdle
    /\ UnitsIdle

InitStudy ==
    /\ pc = "study"
    /\ batch = "none"
    /\ \E nq \in 0 .. MaxQuestions, mr \in 1 .. MaxRoundsParam :
          tasks = <<EnterStudy(NewTask(0, nq, mr))>>
    /\ sem = 0
    /\ studies = <<>>
    /\ master_synthesis = 0
    /\ synthesis_score = 0
    /\ refine_round = 0
    /\ refinement_rounds = 0
    /\ n_regens = 0
    /\ errors_left = MaxStudyTransients
    /\ killed_at = ""
    /\ resume_response = ""
    /\ study_plan = <<>>
    /\ InitProc

SpecStudy == InitStudy /\ [][StudyStep]_vars

(***************************************************************************)
(* execute_deep_research                                                   *)
(***************************************************************************)
\* The planner's final text, by what parse_json_response makes of it: empty
\* text, text holding no JSON, a JSON object, or a JSON array whose items are
\* study dicts ("study") or values of another type ("nondict").
ArraysUpTo(n) == UNION {[1 .. k -> {"study", "nondict"}] : k \in 0 .. n}
PlannerOutputs ==
    {[shape |-> sh, items |-> <<>>] : sh \in {"empty", "garbage", "object"}}
    \cup {[shape |-> "array", items |-> a] : a \in ArraysUpTo(MaxStudies)}

\* parse_json_response: None for empty text and for text without JSON.
parse_json_response(out) ==
    IF out.shape \in {"empty", "garbage"} THEN [shape |-> "none", items |-> <<>>]
    ELSE out

\* studies = parse_json_response(plan_text)
\* if not isinstance(studies, list) or not studies:
\*     studies = [{"title": query, ...}]            ("query": titled by the query)
ParsePlan(out) ==
    LET parsed == parse_json_response(out) IN
    IF parsed.shape # "array" \/ parsed.items = <<>> THEN <<"query">>
    ELSE parsed.items

\* Phase 0: analyze_query never raises (it falls back to _DEFAULTS).
QueryAnalysis ==
    /\ pc = "analysis"
    /\ pc' = "planning"
    /\ UNCHANGED <<tasks, batch, sem, studies, master_synthesis, synthesis_score,
                   refine_round, refinement_rounds, n_regens, errors_left,
                   killed_at, resume_response, study_plan, procVars>>

\* Phase 1: the planner answers. result.study_plan = studies; the progress
\* report then reads s.get("title", "") of every item, outside any try: an item
\* that is not a dict raises AttributeError. Otherwise the study_tasks are
\* created for asyncio.gather.
Planning(out) ==
    /\ pc = "planning"
    /\ study_plan' = ParsePlan(out)
    /\ IF \E i \in DOMAIN ParsePlan(out) : ParsePlan(out)[i] = "nondict"
       THEN /\ pc' = "raised"
            /\ UNCHANGED <<tasks, batch, sem>>
       ELSE /\ tasks' = [i \in 1 .. Len(ParsePlan(out)) |->
                           NewTask(i - 1, 0, DefaultMaxRoundsPerStudy)]
            /\ batch' = "studies"
            /\ sem' = MAX_CONCURRENT_STUDIES
            /\ pc' = "studies"
    /\ UNCHANGED <<studies, master_synthesis, synthesis_score,
                   refine_round, refinement_rounds, n_regens, errors_left,
                   killed_at, resume_response, procVars>>

\* The planner call raises: nothing in execute_deep_research catches it.
PlanningRaises ==
    /\ pc = "planning"
    /\ pc' = "raised"
    /\ UNCHANGED <<tasks, batch, sem, studies, master_synthesis, synthesis_score,
                   refine_round, refinement_rounds, n_regens, errors_left,
                   killed_at, resume_response, study_plan, procVars>>

\* StudyAcquire entering the study without waiting for a free permit.
StudyAcquireWithoutPermit(i, use_deep, nq) ==
    /\ pc \in {"studies", "gap_studies"}
    /\ i \in DOMAIN tasks
    /\ tasks[i].st = "waiting"
    /\ use_deep => batch = "studies"
    /\ batch = "gap" => nq = 1
    /\ sem' = sem - 1
    /\ tasks' = [tasks EXCEPT ![i] =
                    IF use_deep THEN [tasks[i] EXCEPT !.st = "deep", !.nq = nq]
                    ELSE EnterStudy([tasks[i] EXCEPT !.nq = nq])]
    /\ UNCHANGED <<pc, batch, studies, master_synthesis, synthesis_score,
                   refine_round, refinement_rounds, n_regens, errors_left,
                   killed_at, resume_response, study_plan, procVars>>

\* `async with sem:` of _study_with_sem / _gap_study_with_sem admits task i.
\* (_study_with_sem calls run_iterative_study with researcher_builder=..., a
\* keyword this run_iterative_study does not take: the study then raises at
\* once, which ResearchRoundFails(i, FALSE) covers, next to the runs in which
\* the call goes through.)
\* An original study is routed to Gemini Deep Research when
\* should_use_deep_research says so; a gap study always runs iteratively.
\* nq is len(study_dict["questions"]) of a planned study, read here for the
\* first time; a gap study has questions = [question].
StudyAcquire(i, use_deep, nq) ==
    /\ pc \in {"studies", "gap_studies"}
    /\ i \in DOMAIN tasks
    /\ tasks[i].st = "waiting"
    /\ sem > 0
    /\ use_deep => batch = "studies"
    /\ batch = "gap" => nq = 1
    /\ sem' = sem - 1
    /\ tasks' = [tasks EXCEPT ![i] =
                    IF use_deep THEN [tasks[i] EXCEPT !.st = "deep", !.nq = nq]
                    ELSE EnterStudy([tasks[i] EXCEPT !.nq = nq])]
    /\ UNCHANGED <<pc, batch, studies, master_synthesis, synthesis_score,
                   refine_round, refinement_rounds, n_regens, errors_left,
                   killed_at, resume_response, study_plan, procVars>>

\* _run_deep_research_study returns: a report (the study is done) or an empty
\* StudyResult (its own exceptions are swallowed), which falls through to the
\* iterative study.
DeepResearchReturns(i, has_report) ==
    /\ i \in DOMAIN tasks
    /\ tasks[i].st = "deep"
    /\ IF has_report
       THEN /\ tasks' = [tasks EXCEPT ![i] =
                           ReturnedTask([tasks[i] EXCEPT !.rounds = 1],
                                        SynthesisText(tasks[i]))]
            /\ Release
       ELSE /\ tasks' = [tasks EXCEPT ![i] = EnterStudy(tasks[i])]
            /\ UNCHANGED sem
    /\ UNCHANGED <<pc, batch, studies, master_synthesis, synthesis_score,
                   refine_round, refinement_rounds, n_regens, errors_left,
                   killed_at, resume_response, study_plan, procVars>>

\* StudyResult as the later phases read it: its synthesis text.
StudyResultOf(t) == [synthesis |-> t.synthesis]

\* GatheredResults with the failed studies left out of the list.
GatheredResultsDropFailed ==
    LET RECURSIVE Keep(_)
        Keep(s) == IF s = <<>> THEN <<>>
                   ELSE IF Head(s).st = "raised" THEN Keep(Tail(s))
                   ELSE <<StudyResultOf(Head(s))>> \o Keep(Tail(s))
    IN Keep(tasks)

GatheredResults == [i \in DOMAIN tasks |-> StudyResultOf(tasks[i])]

\* StudiesGathered without the early return for an empty successful_studies.
StudiesGatheredNoEarlyReturn ==
    /\ pc = "studies"
    /\ AllSettled
    /\ studies' = GatheredResults
    /\ tasks' = <<>>
    /\ batch' = "none"
    /\ pc' = "master_synthesis"
    /\ UNCHANGED <<sem, master_synthesis, synthesis_score,
                   refine_round, refinement_rounds, n_regens, errors_left,
                   killed_at, resume_response, study_plan, procVars>>

\* study_results = await asyncio.gather(*study_tasks); result.studies = list(...)
\* if not successful_studies: return result
StudiesGathered ==
    /\ pc = "studies"
    /\ AllSettled
    /\ studies' = GatheredResults
    /\ tasks' = <<>>
    /\ batch' = "none"
    /\ pc' = IF SelectNonEmpty(GatheredResults) = <<>> THEN "returned"
             ELSE "master_synthesis"
    /\ UNCHANGED <<sem, master_synthesis, synthesis_score,
                   refine_round, refinement_rounds, n_regens, errors_left,
                   killed_at, resume_response, study_plan, procVars>>

\* Phase 4: the master synthesis call returns (possibly empty text). With an
\* empty briefing every later phase is skipped (`if result.master_synthesis`).
MasterSynthesisReturns(nonempty) ==
    /\ pc = "master_synthesis"
    /\ master_synthesis' = IF nonempty THEN 1 ELSE 0
    /\ pc' = IF nonempty THEN "claim_validation" ELSE "returned"
    /\ UNCHANGED <<tasks, batch, sem, studies, synthesis_score,
                   refine_round, refinement_rounds, n_regens, errors_left,
                   killed_at, resume_response, study_plan, procVars>>

MasterSynthesisRaises ==
    /\ pc = "master_synthesis"
    /\ pc' = "raised"
    /\ UNCHANGED <<tasks, batch, sem, studies, master_synthesis, synthesis_score,
                   refine_round, refinement_rounds, n_regens, errors_left,
                   killed_at, resume_response, study_plan, procVars>>

\* Phase 4a: validate_claims returns or raises; the exception is caught.
ClaimValidation ==
    /\ pc = "claim_validation"
    /\ pc' = "evaluation"
    /\ refine_round' = 0
    /\ UNCHANGED <<tasks, batch, sem, studies, master_synthesis, synthesis_score,
                   refinement_rounds, n_regens, errors_left,
                   killed_at, resume_response, study_plan, procVars>>

\* evaluate_synthesis: the parsed evaluation. `actionable` counts the gaps with
\* a research_question and priority high or medium; `high` says some gap has
\* priority high. An unparseable answer yields the default (5.0, no gaps,
\* refinement_needed = True).
Evaluations ==
    [overall_score : Scores, high : BOOLEAN, actionable : 0 .. MaxEvalGaps]
    \cup {[overall_score |-> 50, high |-> FALSE, actionable |-> 0]}

\* RefinementNeeded looking at the score only.
RefinementNeededByScore(ev) == ev.overall_score < REFINEMENT_THRESHOLD

\* evaluation["refinement_needed"] = overall < REFINEMENT_THRESHOLD or has_high_gaps
RefinementNeeded(ev) == ev.overall_score < REFINEMENT_THRESHOLD \/ ev.high

\* Phase 4b, first half of the loop body: evaluate, then either leave the loop
\* or launch the gap studies (gap_questions[:6]) under the same `sem`.
Evaluate(ev) ==
    /\ pc = "evaluation"
    /\ synthesis_score' = ev.overall_score
    /\ refinement_rounds' = refine_round + 1
    /\ IF ~RefinementNeeded(ev) \/ ev.actionable = 0
       THEN /\ pc' = "verification"
            /\ UNCHANGED <<tasks, batch>>
       ELSE /\ pc' = "gap_studies"
            /\ batch' = "gap"
            /\ tasks' = [i \in 1 .. Min(ev.actionable, MaxGapStudies) |->
                            NewTask(Len(studies) + i - 1, 0, GapStudyMaxRounds)]
    /\ UNCHANGED <<sem, studies, master_synthesis, refine_round, n_regens,
                   errors_left, killed_at, resume_response, study_plan, procVars>>

\* evaluate_synthesis raises: the call is not inside a try block.
EvaluateRaises ==
    /\ pc = "evaluation"
    /\ pc' = "raised"
    /\ UNCHANGED <<tasks, batch, sem, studies, master_synthesis, synthesis_score,
                   refine_round, refinement_rounds, n_regens, errors_left,
                   killed_at, resume_response, study_plan, procVars>>

\* GapStudiesGathered rebuilding the list from the successful studies only.
GapStudiesGatheredDropsFailed ==
    /\ pc = "gap_studies"
    /\ AllSettled
    /\ LET good == SelectNonEmpty(GatheredResults) IN
       /\ studies' = SelectNonEmpty(studies) \o good
       /\ pc' = IF good = <<>> THEN "verification" ELSE "refinement"
    /\ tasks' = <<>>
    /\ batch' = "none"
    /\ UNCHANGED <<sem, master_synthesis, synthesis_score,
                   refine_round, refinement_rounds, n_regens, errors_left,
                   killed_at, resume_response, study_plan, procVars>>

\* gap_study_results = [s for s in await gather(...) if s.synthesis]
\* if not gap_study_results: break;  result.studies.extend(gap_study_results)
GapStudiesGathered ==
    /\ pc = "gap_studies"
    /\ AllSettled
    /\ LET good == SelectNonEmpty(GatheredResults) IN
       /\ studies' = studies \o good
       /\ pc' = IF good = <<>> THEN "verification" ELSE "refinement"
    /\ tasks' = <<>>
    /\ batch' = "none"
    /\ UNCHANGED <<sem, master_synthesis, synthesis_score,
                   refine_round, refinement_rounds, n_regens, errors_left,
                   killed_at, resume_response, study_plan, procVars>>

\* RefinementReturns without the bound of range(max_refinement_rounds).
RefinementReturnsUnbounded(nonempty) ==
    /\ pc = "refinement"
    /\ n_regens' = n_regens + 1
    /\ master_synthesis' = IF nonempty THEN master_synthesis + 1 ELSE master_synthesis
    /\ IF nonempty
       THEN /\ refine_round' = refine_round + 1
            /\ pc' = "evaluation"
       ELSE /\ pc' = "verification"
            /\ UNCHANGED refine_round
    /\ UNCHANGED <<tasks, batch, sem, studies, synthesis_score,
                   refinement_rounds, errors_left,
                   killed_at, resume_response, study_plan, procVars>>

\* Phase 4b, second half: the regeneration call returns refined_text.
\* if refined_text: result.master_synthesis = refined_text  else: break
RefinementReturns(nonempty) ==
    /\ pc = "refinement"
    /\ n_regens' = n_regens + 1
    /\ master_synthesis' = IF nonempty THEN master_synthesis + 1 ELSE master_synthesis
    /\ IF nonempty /\ refine_round + 1 < max_refinement_rounds
       THEN /\ refine_round' = refine_round + 1
            /\ pc' = "evaluation"
       ELSE /\ pc' = "verification"
            /\ UNCHANGED refine_round
    /\ UNCHANGED <<tasks, batch, sem, studies, synthesis_score,
                   refinement_rounds, errors_left,
                   killed_at, resume_response, study_plan, procVars>>

RefinementRaises ==
    /\ pc = "refinement"
    /\ n_regens' = n_regens + 1
    /\ pc' = "raised"
    /\ UNCHANGED <<tasks, batch, sem, studies, master_synthesis, synthesis_score,
                   refine_round, refinement_rounds, errors_left,
                   killed_at, resume_response, study_plan, procVars>>

\* Phase 4d: low_score = 0 < score < 7.5; runs when low_score or
\* needs_fact_check. v_text replaces the briefing only when non-empty; any
\* exception is caught.
LowScore == synthesis_score > 0 /\ synthesis_score < 75

\* EnhancedVerification without the `if v_text` test before the assignment.
EnhancedVerificationAssignsEmpty(needs_fact_check, revised) ==
    /\ pc = "verification"
    /\ master_synthesis' =
          IF master_synthesis # 0 /\ (LowScore \/ needs_fact_check)
          THEN (IF revised THEN master_synthesis + 1 ELSE 0) ELSE master_synthesis
    /\ pc' = "strategic_analysis"
    /\ UNCHANGED <<tasks, batch, sem, studies, synthesis_score,
                   refine_round, refinement_rounds, n_regens, errors_left,
                   killed_at, resume_response, study_plan, procVars>>

EnhancedVerification(needs_fact_check, revised) ==
    /\ pc = "verification"
    /\ master_synthesis' =
          IF master_synthesis # 0 /\ (LowScore \/ needs_fact_check) /\ revised
          THEN master_synthesis + 1 ELSE master_synthesis
    /\ pc' = "strategic_analysis"
    /\ UNCHANGED <<tasks, batch, sem, studies, synthesis_score,
                   refine_round, refinement_rounds, n_regens, errors_left,
                   killed_at, resume_response, study_plan, procVars>>

\* Phase 4c: run_strategic_analysis returns or raises (caught). Phase 4e: when
\* the context carries a "Known entity relationships:" section (kg_section),
\* it is appended to the briefing (`result.master_synthesis += ...`).
StrategicAnalysis(kg_section) ==
    /\ pc = "strategic_analysis"
    /\ pc' = "qa"
    /\ master_synthesis' =
          IF master_synthesis # 0 /\ kg_section
          THEN master_synthesis + 1 ELSE master_synthesis
    /\ UNCHANGED <<tasks, batch, sem, studies, synthesis_score,
                   refine_round, refinement_rounds, n_regens, errors_left,
                   killed_at, resume_response, study_plan, procVars>>

\* Phase 5: the Q&A anticipator call and the cluster research; the anticipator
\* call is not inside a try block.
AnticipatedQA(raises) ==
    /\ pc = "qa"
    /\ pc' = IF raises THEN "raised" ELSE "returned"
    /\ UNCHANGED <<tasks, batch, sem, studies, master_synthesis, synthesis_score,
                   refine_round, refinement_rounds, n_regens, errors_left,
                   killed_at, resume_response, study_plan, procVars>>

PipelineStep ==
    \/ QueryAnalysis
    \/ \E out \in PlannerOutputs : Planning(out)
    \/ PlanningRaises
    \/ \E i \in DOMAIN tasks, d \in BOOLEAN, nq \in 0 .. MaxQuestions :
          StudyAcquire(i, d, nq)
    \/ \E i \in DOMAIN tasks, r \in BOOLEAN : DeepResearchReturns(i, r)
    \/ StudiesGathered
    \/ \E ne \in BOOLEAN : MasterSynthesisReturns(ne)
    \/ MasterSynthesisRaises
    \/ ClaimValidation
    \/ \E ev \in Evaluations : Evaluate(ev)
    \/ EvaluateRaises
    \/ GapStudiesGathered
    \/ \E ne \in BOOLEAN : RefinementReturns(ne)
    \/ RefinementRaises
    \/ \E f \in BOOLEAN, r \in BOOLEAN : EnhancedVerification(f, r)
    \/ \E kg \in BOOLEAN : StrategicAnalysis(kg)
    \/ \E r \in BOOLEAN : AnticipatedQA(r)

InitPipeline ==
    /\ pc = "analysis"
    /\ batch = "none"
    /\ tasks = <<>>
    /\ sem = MAX_CONCURRENT_STUDIES
    /\ studies = <<>>
    /\ master_synthesis = 0
    /\ synthesis_score = 0
    /\ refine_round = 0
    /\ refinement_rounds = 0
    /\ n_regens = 0
    /\ errors_left = MaxPipelineTransients
    /\ killed_at = ""
    /\ resume_response = ""
    /\ study_plan = <<>>
    /\ InitProc

(***************************************************************************)
(* Job tracker, worker threads, SIGTERM handler, resume route              *)
(***************************************************************************)
RECURSIVE SumOver(_, _)
SumOver(f, S) ==
    IF S = {} THEN 0
    ELSE LET x == CHOOSE y \in S : TRUE IN f[x] + SumOver(f, S \ {x})

TotalThreads == SumOver(threads, ThreadKeys)
\* Live worker threads whose job_id is j.
ThreadsOf(j) == SumOver(threads, {k \in ThreadKeys : k[1] = j})

ShutdownError == "Server shutdown during research. Resume available."
WorkerError == "str(e)"

\* update_job(job_id, status=..., error=...): a no-op when the id is not in _jobs.
update_job(js, j, status, error) ==
    IF js[j] = NoJob THEN js
    ELSE [js EXCEPT ![j] = [status |-> status, error |-> error]]

\* create_job: job_id = secrets.token_hex(6), an id never handed out before;
\* the model takes the least id with no trace in the tracker or the store.
FreshIds ==
    {j \in JobIds : jobs[j] = NoJob /\ checkpoints[j] = NoCheckpoint /\ meta[j] = ""}
create_job == CHOOSE j \in FreshIds : \A k \in FreshIds : j <= k

Spawn(ths, j, kind) ==
    [ths EXCEPT ![<<j, kind, "started">>] = @ + 1]
Move(ths, j, kind, from, to) ==
    [ths EXCEPT ![<<j, kind, from>>] = @ - 1, ![<<j, kind, to>>] = @ + 1]
Exit(ths, j, kind, from) ==
    [ths EXCEPT ![<<j, kind, from>>] = @ - 1]

\* POST /api/research: create_job, then run_research_for_ui starts the thread.
StartResearch ==
    /\ proc = "up"
    /\ FreshIds # {}
    /\ TotalThreads < MaxThreads
    /\ jobs' = [jobs EXCEPT ![create_job] = [status |-> "pending", error |-> ""]]
    /\ threads' = Spawn(threads, create_job, "run")
    /\ UNCHANGED <<checkpoints, meta, proc, deep_jobs, marked, pipeVars, trackerVars, unitVars>>

\* _run: update_job(job_id, status=JobStatus.RUNNING, ...)
WorkerBegin(j, kind) ==
    /\ proc # "down"
    /\ threads[<<j, kind, "started">>] > 0
    /\ jobs' = update_job(jobs, j, "running", jobs[j].error)
    /\ threads' = Move(threads, j, kind, "started", "running")
    /\ UNCHANGED <<checkpoints, meta, proc, deep_jobs, marked, pipeVars, trackerVars, unitVars>>

\* _run: the pipeline returned; publish_results_with_metadata writes the
\* metadata blob with "status": "completed".
WorkerPublishes(j, kind) ==
    /\ proc # "down"
    /\ threads[<<j, kind, "running">>] > 0
    /\ meta' = [meta EXCEPT ![j] = "completed"]
    /\ threads' = Move(threads, j, kind, "running", "published")
    /\ UNCHANGED <<jobs, checkpoints, proc, deep_jobs, marked, pipeVars, trackerVars, unitVars>>

\* _run: update_job(job_id, status=JobStatus.COMPLETED, ...); the thread ends.
WorkerCompletes(j, kind) ==
    /\ proc # "down"
    /\ threads[<<j, kind, "published">>] > 0
    /\ jobs' = update_job(jobs, j, "completed", jobs[j].error)
    /\ threads' = Exit(threads, j, kind, "published")
    /\ UNCHANGED <<checkpoints, meta, proc, deep_jobs, marked, pipeVars, trackerVars, unitVars>>

\* _run: except Exception as e: update_job(job_id, status=FAILED, error=str(e))
WorkerFails(j, kind) ==
    /\ proc # "down"
    /\ threads[<<j, kind, "running">>] > 0
    /\ jobs' = update_job(jobs, j, "failed", WorkerError)
    /\ threads' = Exit(threads, j, kind, "running")
    /\ UNCHANGED <<checkpoints, meta, proc, deep_jobs, marked, pipeVars, trackerVars, unitVars>>

\* The jobs whose status is RUNNING.
get_running_deep_jobs == {j \in JobIds : jobs[j].status = "running"}

\* SIGTERM arrives: _on_sigterm starts and takes its list of running jobs.
Sigterm ==
    /\ proc = "up"
    /\ proc' = "sigterm"
    /\ deep_jobs' = get_running_deep_jobs
    /\ marked' = {}
    /\ UNCHANGED <<jobs, threads, checkpoints, meta, pipeVars, trackerVars, unitVars>>

\* One iteration of `for job in deep_jobs`: update_job marks the tracker entry,
\* update_metadata marks the durable metadata; `stored` is FALSE when no bucket
\* is configured or update_metadata raises (the exception is caught).
HandlerMark(j, stored) ==
    /\ proc = "sigterm"
    /\ j \in deep_jobs \ marked
    /\ jobs' = update_job(jobs, j, "failed", ShutdownError)
    /\ meta' = [meta EXCEPT ![j] = IF stored THEN "interrupted" ELSE @]
    /\ marked' = marked \cup {j}
    /\ UNCHANGED <<threads, checkpoints, proc, deep_jobs, pipeVars, trackerVars, unitVars>>

\* sys.exit(0): the process ends and its daemon threads with it. `jobs` keeps
\* the tracker's last content until the next process starts.
HandlerExit ==
    /\ proc = "sigterm"
    /\ marked = deep_jobs
    /\ proc' = "down"
    /\ threads' = NoThreads
    /\ UNCHANGED <<jobs, checkpoints, meta, deep_jobs, marked, pipeVars, trackerVars, unitVars>>

\* A new process starts with an empty tracker; the store is durable.
Restart ==
    /\ proc = "down"
    /\ proc' = "up"
    /\ jobs' = [j \in JobIds |-> NoJob]
    /\ deep_jobs' = {}
    /\ marked' = {}
    /\ UNCHANGED <<threads, checkpoints, meta, pipeVars, trackerVars, unitVars>>

\* resume_research_for_ui(job_id, settings): starts the orchestrator thread
\* that resumes job j; the thread reports to the tracker as _run does
\* (RUNNING when it begins, then COMPLETED or FAILED).
resume_research_for_ui(ths, j) == Spawn(ths, j, "resume")

\* POST /api/research/resume for job j:
\*   checkpoint = load_checkpoint(job_id, bucket); if not checkpoint: 404
\*   job = get_job(job_id); if job and job.status not in (FAILED,): 400
\*   resume_research_for_ui(job_id, settings); 202
\* ResumeAccepted without the status test of the route.
ResumeAcceptedAnyStatus(j) ==
    checkpoints[j] # NoCheckpoint

ResumeAccepted(j) ==
    /\ checkpoints[j] # NoCheckpoint
    /\ ~(jobs[j] # NoJob /\ jobs[j].status # "failed")

ResumeRequest(j) ==
    /\ proc = "up"
    /\ ResumeAccepted(j) => TotalThreads < MaxThreads
    /\ IF checkpoints[j] = NoCheckpoint
       THEN /\ resume_response' = "404"
            /\ UNCHANGED threads
       ELSE IF ~ResumeAccepted(j)
       THEN /\ resume_response' = "400"
            /\ UNCHANGED threads
       ELSE /\ resume_response' = "202"
            /\ threads' = resume_research_for_ui(threads, j)
    /\ UNCHANGED <<pc, tasks, batch, sem, studies, master_synthesis,
                   synthesis_score, refine_round, refinement_rounds, n_regens,
                   errors_left, killed_at, study_plan>>
    /\ UNCHANGED <<jobs, checkpoints, meta, proc, deep_jobs, marked, trackerVars, unitVars>>

\* The process running the pipeline is killed (SIGKILL, crash): everything in
\* memory is lost, the durable store stays. killed_at records where it was.
KillProcess ==
    /\ pc \notin {"returned", "raised", "killed"}
    /\ killed_at' = pc
    /\ pc' = "killed"
    /\ tasks' = <<>>
    /\ batch' = "none"
    /\ sem' = MAX_CONCURRENT_STUDIES
    /\ studies' = <<>>
    /\ master_synthesis' = 0
    /\ synthesis_score' = 0
    /\ refine_round' = 0
    /\ refinement_rounds' = 0
    /\ n_regens' = 0
    /\ errors_left' = 0
    /\ study_plan' = <<>>
    /\ UNCHANGED <<resume_response, procVars>>

JobStep ==
    \/ StartResearch
    \/ \E j \in JobIds, k \in {"run", "resume"} : WorkerBegin(j, k)
    \/ \E j \in JobIds, k \in {"run", "resume"} : WorkerPublishes(j, k)
    \/ \E j \in JobIds, k \in {"run", "resume"} : WorkerCompletes(j, k)
    \/ \E j \in JobIds, k \in {"run", "resume"} : WorkerFails(j, k)
    \/ Sigterm
    \/ \E j \in JobIds, stored \in BOOLEAN : HandlerMark(j, stored)
    \/ HandlerExit
    \/ Restart
    \/ \E j \in JobIds : ResumeRequest(j)

\* The checkpoint blobs earlier processes left in the bucket: none are written
\* by the code modelled here, so every one belongs to an id of an earlier run.
CheckpointPhases == {"studies"}

InitJobs ==
    /\ pc = "idle"
    /\ batch = "none"
    /\ tasks = <<>>
    /\ sem = MAX_CONCURRENT_STUDIES
    /\ studies = <<>>
    /\ master_synthesis = 0
    /\ synthesis_score = 0
    /\ refine_round = 0
    /\ refinement_rounds = 0
    /\ n_regens = 0
    /\ errors_left = 0
    /\ killed_at = ""
    /\ resume_response = ""
    /\ study_plan = <<>>
    /\ jobs = [j \in JobIds |-> NoJob]
    /\ threads = NoThreads
    /\ checkpoints \in [JobIds -> {NoCheckpoint} \cup CheckpointPhases]
    /\ meta = [j \in JobIds |-> ""]
    /\ proc = "up"
    /\ deep_jobs = {}
    /\ marked = {}
    /\ TrackerIdle
    /\ UnitsIdle

SpecJobs == InitJobs /\ [][JobStep]_vars

(***************************************************************************)
(* The resume route applied in every situation of the tracker and the      *)
(* store: each job id is untracked or tracked in any status (with the      *)
(* worker thread that status implies), with or without a checkpoint blob.  *)
(***************************************************************************)
Statuses == {"pending", "running", "completed", "failed"}

ThreadsFor(js) ==
    [k \in ThreadKeys |->
        IF k[2] = "run" /\ ((js[k[1]].status = "pending" /\ k[3] = "started")
                            \/ (js[k[1]].status = "running" /\ k[3] = "running"))
        THEN 1 ELSE 0]

InitResume ==
    /\ pc = "idle"
    /\ batch = "none"
    /\ tasks = <<>>
    /\ sem = MAX_CONCURRENT_STUDIES
    /\ studies = <<>>
    /\ master_synthesis = 0
    /\ synthesis_score = 0
    /\ refine_round = 0
    /\ refinement_rounds = 0
    /\ n_regens = 0
    /\ errors_left = 0
    /\ killed_at = ""
    /\ resume_response = ""
    /\ study_plan = <<>>
    /\ jobs \in [JobIds -> {NoJob} \cup [status : Statuses, error : {""}]]
    /\ threads = ThreadsFor(jobs)
    /\ checkpoints \in [JobIds -> {NoCheckpoint} \cup CheckpointPhases]
    /\ meta = [j \in JobIds |-> ""]
    /\ proc = "up"
    /\ deep_jobs = {}
    /\ marked = {}
    /\ TrackerIdle
    /\ UnitsIdle

ResumeStep ==
    \/ \E j \in JobIds : ResumeRequest(j)
    \/ \E j \in JobIds, k \in {"run", "resume"} : WorkerBegin(j, k)
    \/ \E j \in JobIds, k \in {"run", "resume"} : WorkerPublishes(j, k)
    \/ \E j \in JobIds, k \in {"run", "resume"} : WorkerCompletes(j, k)
    \/ \E j \in JobIds, k \in {"run", "resume"} : WorkerFails(j, k)

SpecResume == InitResume /\ [][ResumeStep]_vars

\* The client asks once to resume the killed run.
ResumeKilledRun ==
    /\ pc = "killed"
    /\ resume_response = ""
    /\ ResumeRequest(PipelineJob)

Next ==
    \/ PipelineStep
    \/ StudyStep
    \/ KillProcess
    \/ ResumeKilledRun

Spec == InitPipeline /\ [][Next]_vars

(***************************************************************************)
(* run_research_for_ui._run around the pipeline                            *)
(***************************************************************************)
\* _run: init_stats; update_job(job_id, status=RUNNING, ...)
RunBegins ==
    /\ pc = "analysis"
    /\ WorkerBegin(PipelineJob, "run")

\* result = asyncio.run(execute_research(...)): the pipeline runs on the
\* worker thread of the job.
RunPipeline ==
    /\ threads[<<PipelineJob, "run", "running">>] > 0
    /\ (PipelineStep \/ StudyStep)

\* The pipeline returned a result: upload, stats, publish_results_with_metadata.
RunPublishes ==
    /\ pc = "returned"
    /\ WorkerPublishes(PipelineJob, "run")

\* update_job(job_id, status=JobStatus.COMPLETED, phase="Complete", ...)
RunCompletes == WorkerCompletes(PipelineJob, "run")

\* except Exception as e: the call of execute_research is refused at once
\* (keyword arguments it does not take), the pipeline raised, or a step after
\* its return raised (stats, publishing).
RunFails ==
    /\ pc \in {"analysis", "returned", "raised"}
    /\ WorkerFails(PipelineJob, "run")

RunStep ==
    \/ RunBegins
    \/ RunPipeline
    \/ RunPublishes
    \/ RunCompletes
    \/ RunFails

\* POST /api/research created the job (PENDING) and started its thread.
InitRun ==
    /\ pc = "analysis"
    /\ batch = "none"
    /\ tasks = <<>>
    /\ sem = MAX_CONCURRENT_STUDIES
    /\ studies = <<>>
    /\ master_synthesis = 0
    /\ synthesis_score = 0
    /\ refine_round = 0
    /\ refinement_rounds = 0
    /\ n_regens = 0
    /\ errors_left = MaxPipelineTransients
    /\ killed_at = ""
    /\ resume_response = ""
    /\ study_plan = <<>>
    /\ jobs = [j \in JobIds |->
                 IF j = PipelineJob THEN [status |-> "pending", error |-> ""]
                 ELSE NoJob]
    /\ threads = Spawn(NoThreads, PipelineJob, "run")
    /\ checkpoints = [j \in JobIds |-> NoCheckpoint]
    /\ meta = [j \in JobIds |-> ""]
    /\ proc = "up"
    /\ deep_jobs = {}
    /\ marked = {}
    /\ TrackerIdle
    /\ UnitsIdle

SpecRun == InitRun /\ [][RunStep]_vars

(***************************************************************************)
(* job_tracker._lock: the progress callback, the stats pusher and the      *)
(* status endpoint working on one job                                      *)
(***************************************************************************)
\* `with _lock:` is entered by thread t (blocks while another thread holds it).
Acquire(t, from, to) ==
    /\ at[t] = from
    /\ lock = "free"
    /\ lock' = t
    /\ at' = [at EXCEPT ![t] = to]

\* The `with _lock:` block of thread t ends.
ReleaseLock(t, from, to) ==
    /\ at[t] = from
    /\ lock = t
    /\ lock' = "free"
    /\ at' = [at EXCEPT ![t] = to]

\* _on_progress(phase, step=...): record_phase_timing(job_id, timing_key).
ProgressCalled ==
    /\ Acquire("worker", "idle", "record_phase_timing")
    /\ UNCHANGED <<live, jobs, threads, checkpoints, meta, proc, deep_jobs,
                   marked, pipeVars, unitVars>>

\* record_phase_timing returns; with study_idx and study_status among the
\* keyword arguments the callback goes on to get_job, otherwise to update_job.
PhaseTimingRecorded(with_study) ==
    /\ ReleaseLock("worker", "record_phase_timing",
                   IF with_study THEN "call_get_job" ELSE "call_update_job")
    /\ UNCHANGED <<live, jobs, threads, checkpoints, meta, proc, deep_jobs,
                   marked, pipeVars, unitVars>>

\* job = get_job(job_id): `with _lock: return _jobs.get(job_id)`.
GetJobEnters(t, from) ==
    /\ Acquire(t, from, "get_job")
    /\ UNCHANGED <<live, jobs, threads, checkpoints, meta, proc, deep_jobs,
                   marked, pipeVars, unitVars>>

\* get_job returns the JobInfo object itself; the caller works on it after the
\* lock is released.
GetJobReturns(t, to) ==
    /\ ReleaseLock(t, "get_job", to)
    /\ UNCHANGED <<live, jobs, threads, checkpoints, meta, proc, deep_jobs,
                   marked, pipeVars, unitVars>>

\* if job and job.study_progress:
\*     if idx < len(job.study_progress):
\*         job.study_progress[idx]["status"] = kwargs["study_status"]
SetStudyStatus(idx, study_status) ==
    /\ at["worker"] = "study_status"
    /\ live' = IF idx < Len(live.study_progress)
               THEN [live EXCEPT !.study_progress[idx + 1] = study_status]
               ELSE live
    /\ at' = [at EXCEPT !["worker"] = "call_update_job"]
    /\ UNCHANGED <<lock, jobs, threads, checkpoints, meta, proc, deep_jobs,
                   marked, pipeVars, unitVars>>

\* update_job(job_id, **updates) of the callback enters its `with _lock:`.
UpdateJobEnters ==
    /\ Acquire("worker", "call_update_job", "update_job")
    /\ UNCHANGED <<live, jobs, threads, checkpoints, meta, proc, deep_jobs,
                   marked, pipeVars, unitVars>>

\* update_job: setattr(job, key, value) for phase, current_step and, in the
\* "Planned n studies" call, study_plan and study_progress (all "pending").
UpdateJobReturns(phase, n) ==
    /\ ReleaseLock("worker", "update_job", "idle")
    /\ live' = [live EXCEPT
                  !.phase = phase,
                  !.study_progress =
                      IF n > 0 THEN [i \in 1 .. n |-> "pending"] ELSE @]
    /\ UNCHANGED <<jobs, threads, checkpoints, meta, proc, deep_jobs,
                   marked, pipeVars, unitVars>>

\* research_stats.increment -> _push_stats -> update_job(research_stats=...)
PushStatsEnters ==
    /\ live.research_stats < MaxStats
    /\ Acquire("worker", "idle", "push_stats")
    /\ UNCHANGED <<live, jobs, threads, checkpoints, meta, proc, deep_jobs,
                   marked, pipeVars, unitVars>>

PushStatsReturns ==
    /\ ReleaseLock("worker", "push_stats", "idle")
    /\ live' = [live EXCEPT !.research_stats = @ + 1]
    /\ UNCHANGED <<jobs, threads, checkpoints, meta, proc, deep_jobs,
                   marked, pipeVars, unitVars>>

\* job_status: jsonify({... job.status, job.phase, job.study_progress,
\* job.research_stats ...}) reads the fields of the object get_job returned.
StatusResponds ==
    /\ at["request"] = "jsonify"
    /\ at' = [at EXCEPT !["request"] = "idle"]
    /\ UNCHANGED <<lock, live, jobs, threads, checkpoints, meta, proc,
                   deep_jobs, marked, pipeVars, unitVars>>

\* The positions at which a thread reads or writes fields of the JobInfo.
AccessesJob(t) ==
    at[t] \in {"record_phase_timing", "get_job", "study_status", "update_job",
               "push_stats", "jsonify"}

TrackerStep ==
    \/ ProgressCalled
    \/ \E ws \in BOOLEAN : PhaseTimingRecorded(ws)
    \/ GetJobEnters("worker", "call_get_job")
    \/ GetJobReturns("worker", "study_status")
    \/ \E idx \in 0 .. MaxStudies, st \in StudyStates \ {"pending"} :
          SetStudyStatus(idx, st)
    \/ UpdateJobEnters
    \/ \E ph \in Phases \ {""}, n \in 0 .. MaxStudies : UpdateJobReturns(ph, n)
    \/ PushStatsEnters
    \/ PushStatsReturns
    \/ GetJobEnters("request", "idle")
    \/ GetJobReturns("request", "jsonify")
    \/ StatusResponds

\* The job's worker thread has begun (status RUNNING); nothing reported yet.
InitTracker ==
    /\ pc = "analysis"
    /\ batch = "none"
    /\ tasks = <<>>
    /\ sem = MAX_CONCURRENT_STUDIES
    /\ studies = <<>>
    /\ master_synthesis = 0
    /\ synthesis_score = 0
    /\ refine_round = 0
    /\ refinement_rounds = 0
    /\ n_regens = 0
    /\ errors_left = 0
    /\ killed_at = ""
    /\ resume_response = ""
    /\ study_plan = <<>>
    /\ jobs = [j \in JobIds |->
                 IF j = PipelineJob THEN [status |-> "running", error |-> ""]
                 ELSE NoJob]
    /\ threads = [NoThreads EXCEPT ![<<PipelineJob, "run", "running">>] = 1]
    /\ checkpoints = [j \in JobIds |-> NoCheckpoint]
    /\ meta = [j \in JobIds |-> ""]
    /\ proc = "up"
    /\ deep_jobs = {}
    /\ marked = {}
    /\ TrackerIdle
    /\ UnitsIdle

SpecTracker == InitTracker /\ [][TrackerStep]_vars

(***************************************************************************)
(* parse_json_response applied to drawn texts                              *)
(***************************************************************************)
\* A caller hands the model's final text to parse_json_response.
ParseCalled ==
    /\ json_value = Pending
    /\ json_value' = parse_json_text(llm_text)
    /\ UNCHANGED <<llm_text, user_text, depth, qa, timing, upload, pipeVars, jobs, threads,
                   checkpoints, meta, proc, deep_jobs, marked, trackerVars>>

InitParse ==
    /\ llm_text \in {Wrapped(J, p, f) : J \in JsonDocs, p \in 0 .. MaxProse,
                                     f \in 0 .. MaxFences} \cup NoJsonTexts
    /\ json_value = Pending
    /\ user_text = {}
    /\ depth = ""
    /\ QAIdle
    /\ TimingIdle
    /\ UploadIdle
    /\ pc = "analysis"
    /\ batch = "none"
    /\ tasks = <<>>
    /\ sem = MAX_CONCURRENT_STUDIES
    /\ studies = <<>>
    /\ master_synthesis = 0
    /\ synthesis_score = 0
    /\ refine_round = 0
    /\ refinement_rounds = 0
    /\ n_regens = 0
    /\ errors_left = 0
    /\ killed_at = ""
    /\ resume_response = ""
    /\ study_plan = <<>>
    /\ jobs = [j \in JobIds |-> NoJob]
    /\ threads = NoThreads
    /\ checkpoints = [j \in JobIds |-> NoCheckpoint]
    /\ meta = [j \in JobIds |-> ""]
    /\ proc = "up"
    /\ deep_jobs = {}
    /\ marked = {}
    /\ TrackerIdle

SpecParse == InitParse /\ [][ParseCalled]_vars

(***************************************************************************)
(* detect_depth applied to drawn texts                                     *)
(***************************************************************************)
\* elevenlabs_webhook: depth = detect_depth(user_messages)
DepthDetected ==
    /\ depth = ""
    /\ depth' = detect_depth(user_text)
    /\ UNCHANGED <<user_text, llm_text, json_value, qa, timing, upload, pipeVars, jobs, threads,
                   checkpoints, meta, proc, deep_jobs, marked, trackerVars>>

InitDepth ==
    /\ user_text \in UserTexts
    /\ depth = ""
    /\ llm_text = <<>>
    /\ json_value = Pending
    /\ QAIdle
    /\ TimingIdle
    /\ UploadIdle
    /\ pc = "analysis"
    /\ batch = "none"
    /\ tasks = <<>>
    /\ sem = MAX_CONCURRENT_STUDIES
    /\ studies = <<>>
    /\ master_synthesis = 0
    /\ synthesis_score = 0
    /\ refine_round = 0
    /\ refinement_rounds = 0
    /\ n_regens = 0
    /\ errors_left = 0
    /\ killed_at = ""
    /\ resume_response = ""
    /\ study_plan = <<>>
    /\ jobs = [j \in JobIds |-> NoJob]
    /\ threads = NoThreads
    /\ checkpoints = [j \in JobIds |-> NoCheckpoint]
    /\ meta = [j \in JobIds |-> ""]
    /\ proc = "up"
    /\ deep_jobs = {}
    /\ marked = {}
    /\ TrackerIdle

SpecDepth == InitDepth /\ [][DepthDetected]_vars

(***************************************************************************)
(* Study admission: a gather batch larger than the semaphore               *)
(***************************************************************************)
\* Either Study Execution starts with n planned studies (max_rounds_per_study
\* = 1), or a refinement round starts one gap study more than the semaphore
\* admits behind one original study.
InitAdmission ==
    /\ \E n \in MAX_CONCURRENT_STUDIES + 1 .. MaxBatch, b \in {"studies", "gap"} :
          /\ batch = b
          /\ b = "gap" => n = MAX_CONCURRENT_STUDIES + 1
          /\ pc = IF b = "studies" THEN "studies" ELSE "gap_studies"
          /\ studies = IF b = "studies" THEN <<>> ELSE <<[synthesis |-> 1]>>
          /\ study_plan = IF b = "studies" THEN [i \in 1 .. n |-> "study"]
                          ELSE <<"study">>
          /\ master_synthesis = IF b = "studies" THEN 0 ELSE 1
          /\ synthesis_score = IF b = "studies" THEN 0 ELSE 78
          /\ refinement_rounds = IF b = "studies" THEN 0 ELSE 1
          /\ tasks = [i \in 1 .. n |->
                         IF b = "studies" THEN NewTask(i - 1, 0, 1)
                         ELSE NewTask(i, 0, GapStudyMaxRounds)]
    /\ sem = MAX_CONCURRENT_STUDIES
    /\ refine_round = 0
    /\ n_regens = 0
    /\ errors_left = 0
    /\ killed_at = ""
    /\ resume_response = ""
    /\ InitProc

AdmissionStep ==
    \/ \E i \in DOMAIN tasks, d \in BOOLEAN, nq \in 0 .. 1 : StudyAcquire(i, d, nq)
    \/ \E i \in DOMAIN tasks, r \in BOOLEAN : DeepResearchReturns(i, r)
    \/ StudyStep
    \/ StudiesGathered
    \/ GapStudiesGathered

SpecAdmission == InitAdmission /\ [][AdmissionStep]_vars

\* The event loop runs every coroutine that is ready, and every external call
\* returns or raises.
SpecAdmissionFair == SpecAdmission /\ WF_vars(AdmissionStep)

(***************************************************************************)
(* One pass of the refinement loop, from evaluate_synthesis on              *)
(***************************************************************************)
\* Evaluations that list more actionable gaps than a round may launch, and a
\* score exactly at the threshold.
WideEvaluations ==
    [overall_score : Scores \cup {REFINEMENT_THRESHOLD}, high : BOOLEAN,
     actionable : (0 .. MaxEvalGaps) \cup {MaxGapStudies, MaxGapStudies + 1}]

\* The pipeline stands before evaluate_synthesis with k studies gathered and a
\* non-empty master synthesis.
InitRefine ==
    /\ pc = "evaluation"
    /\ \E k \in 1 .. MaxStudies :
          /\ study_plan = [i \in 1 .. k |-> "study"]
          /\ studies = [i \in 1 .. k |-> [synthesis |-> i]]
    /\ tasks = <<>>
    /\ batch = "none"
    /\ sem = MAX_CONCURRENT_STUDIES
    /\ master_synthesis = 1
    /\ synthesis_score = 0
    /\ refine_round = 0
    /\ refinement_rounds = 0
    /\ n_regens = 0
    /\ errors_left = 0
    /\ killed_at = ""
    /\ resume_response = ""
    /\ InitProc

\* Batches of up to MaxEvalGaps gap studies are run to their end; a larger
\* batch is followed to its launch only.
RefineStep ==
    \/ \E ev \in WideEvaluations : Evaluate(ev)
    \/ /\ Len(tasks) <= MaxEvalGaps
       /\ \/ \E i \in DOMAIN tasks : StudyAcquire(i, FALSE, 1)
          \/ StudyStep
    \/ GapStudiesGathered
    \/ \E ne \in BOOLEAN : RefinementReturns(ne)

SpecRefine == InitRefine /\ [][RefineStep]_vars

(***************************************************************************)
(* Phase 5: anticipatory Q&A research                                      *)
(***************************************************************************)
\* An entry of the anticipator's cluster list: a dict with a non-empty
\* question list ("ok"), a dict without questions ("noquestions"), a dict
\* whose "questions" has no len() ("badquestions": a number, true), or a
\* value that is not a dict ("nondict": a string, a number, a list).
ClusterKinds == {"ok", "noquestions", "badquestions", "nondict"}

\* Every list of up to MaxClusters entries, and one list longer than the cut
\* clusters[:5].
ClusterLists ==
    UNION {[1 .. n -> ClusterKinds] : n \in 0 .. MaxClusters}
    \cup {[i \in 1 .. MaxQAClusters + 1 |-> IF i = 1 THEN "ok" ELSE "noquestions"]}

qaFrame == <<llm_text, json_value, user_text, depth, timing, upload, pipeVars, jobs, threads,
             checkpoints, meta, proc, deep_jobs, marked, trackerVars>>

NewQATask == [st |-> "waiting", findings |-> 0, failed |-> FALSE]

\* return QAClusterResult(theme=theme[, questions=questions]) / cluster_result
QATaskDone(findings, failed) == [st |-> "done", findings |-> findings, failed |-> failed]

\* The text a cluster's synthesis returns.
FindingsText(k) == k

\* The anticipator answers; qa_data is parsed into `clusters`; with no
\* clusters the pipeline returns, otherwise clusters[:5] are launched.
QAAnticipated(cl) ==
    /\ qa.pc = "anticipate"
    /\ qa' = IF cl = <<>>
             THEN [qa EXCEPT !.pc = "returned"]
             ELSE [qa EXCEPT !.pc = "clusters",
                             !.clusters = SubSeq(cl, 1, Min(Len(cl), MaxQAClusters)),
                             !.tasks = [k \in 1 .. Min(Len(cl), MaxQAClusters) |-> NewQATask],
                             !.sem = MAX_CONCURRENT_QA]
    /\ UNCHANGED qaFrame

\* The anticipator call raises: it is not inside a try block.
QAAnticipatorRaises ==
    /\ qa.pc = "anticipate"
    /\ qa' = [qa EXCEPT !.pc = "raised"]
    /\ UNCHANGED qaFrame

\* _research_qa_cluster enters `async with qa_sem` and runs up to its first
\* await: cluster_data.get(...) (AttributeError for a non-dict, outside the
\* try), `if not questions: return`, then inside the try range(len(questions))
\* (TypeError caught) and the research call begins.
QAClusterEnters(k) ==
    /\ qa.pc = "clusters"
    /\ k \in DOMAIN qa.tasks
    /\ qa.tasks[k].st = "waiting"
    /\ qa.sem > 0
    /\ qa' = CASE qa.clusters[k] = "nondict" ->
                    [qa EXCEPT !.tasks[k] = [st |-> "raised", findings |-> 0, failed |-> TRUE]]
               [] qa.clusters[k] = "noquestions" ->
                    [qa EXCEPT !.tasks[k] = QATaskDone(0, TRUE)]
               [] qa.clusters[k] = "badquestions" ->
                    [qa EXCEPT !.tasks[k] = QATaskDone(0, TRUE)]
               [] OTHER ->
                    [qa EXCEPT !.tasks[k].st = "research", !.sem = qa.sem - 1]
    /\ UNCHANGED qaFrame

\* The cluster's research run ends or raises (caught: empty findings).
QAResearchEnds(k, raises) ==
    /\ k \in DOMAIN qa.tasks
    /\ qa.tasks[k].st = "research"
    /\ qa' = IF raises
             THEN [qa EXCEPT !.tasks[k] = QATaskDone(0, TRUE), !.sem = qa.sem + 1]
             ELSE [qa EXCEPT !.tasks[k].st = "synth"]
    /\ UNCHANGED qaFrame

\* The cluster's synthesis run ends with a text, with no text, or raises.
QASynthesisEnds(k, outcome) ==
    /\ k \in DOMAIN qa.tasks
    /\ qa.tasks[k].st = "synth"
    /\ qa' = [qa EXCEPT !.tasks[k] =
                           IF outcome = "text" THEN QATaskDone(FindingsText(k), FALSE)
                           ELSE QATaskDone(0, outcome = "raises"),
                       !.sem = qa.sem + 1]
    /\ UNCHANGED qaFrame

\* [c for c in result.qa_clusters if c.findings], in order.
SuccessfulQA(results) ==
    LET RECURSIVE Keep(_)
        Keep(r) == IF r = <<>> THEN <<>>
                   ELSE IF Head(r).findings # 0 THEN <<Head(r).findings>> \o Keep(Tail(r))
                   ELSE Keep(Tail(r))
    IN Keep(results)

\* qa_results = await asyncio.gather(*qa_tasks): the first exception of a
\* coroutine is raised to execute_deep_research; otherwise
\* result.qa_clusters = list(qa_results) and qa_summary joins the findings.
QAGathered ==
    /\ qa.pc = "clusters"
    /\ IF \E k \in DOMAIN qa.tasks : qa.tasks[k].st = "raised"
       THEN qa' = [qa EXCEPT !.pc = "raised"]
       ELSE /\ \A k \in DOMAIN qa.tasks : qa.tasks[k].st = "done"
            /\ LET results == [k \in DOMAIN qa.tasks |->
                                  [findings |-> qa.tasks[k].findings]] IN
               qa' = [qa EXCEPT !.pc = "returned", !.qa_clusters = results,
                                !.qa_summary = SuccessfulQA(results)]
    /\ UNCHANGED qaFrame

QAStep ==
    \/ \E cl \in ClusterLists : QAAnticipated(cl)
    \/ QAAnticipatorRaises
    \/ \E k \in DOMAIN qa.tasks : QAClusterEnters(k)
    \/ \E k \in DOMAIN qa.tasks, r \in BOOLEAN : QAResearchEnds(k, r)
    \/ \E k \in DOMAIN qa.tasks, o \in {"text", "empty", "raises"} : QASynthesisEnds(k, o)
    \/ QAGathered

\* The pipeline reaches Phase 5 with a non-empty master synthesis.
InitQA ==
    /\ qa = [pc |-> "anticipate", clusters |-> <<>>, tasks |-> <<>>, sem |-> 0,
             qa_clusters |-> <<>>, qa_summary |-> <<>>]
    /\ llm_text = <<>>
    /\ json_value = Pending
    /\ user_text = {}
    /\ depth = ""
    /\ TimingIdle
    /\ UploadIdle
    /\ pc = "qa"
    /\ batch = "none"
    /\ tasks = <<>>
    /\ sem = MAX_CONCURRENT_STUDIES
    /\ studies = <<[synthesis |-> 1]>>
    /\ study_plan = <<"study">>
    /\ master_synthesis = 1
    /\ synthesis_score = 85
    /\ refine_round = 0
    /\ refinement_rounds = 1
    /\ n_regens = 0
    /\ errors_left = 0
    /\ killed_at = ""
    /\ resume_response = ""
    /\ jobs = [j \in JobIds |-> NoJob]
    /\ threads = NoThreads
    /\ checkpoints = [j \in JobIds |-> NoCheckpoint]
    /\ meta = [j \in JobIds |-> ""]
    /\ proc = "up"
    /\ deep_jobs = {}
    /\ marked = {}
    /\ TrackerIdle

SpecQA == InitQA /\ [][QAStep]_vars

(***************************************************************************)
(* Phase timings of one job: record_phase_timing and finalize_timings       *)
(***************************************************************************)
\* The `step` values the pipeline passes to the progress callback.
StudySteps == {"study_0", "study_1"}
GapStudySteps == {"gap_study_0"}
Steps == {"planning", "studies", "synthesis", "refinement"} \cup StudySteps \cup GapStudySteps

\* timing_key = "studies" if step.startswith("study_")
\*              else ("refinement" if step.startswith("gap_study_") else step)
TimingKey(step) ==
    IF step \in StudySteps THEN "studies"
    ELSE IF step \in GapStudySteps THEN "refinement"
    ELSE step

timingFrame == <<llm_text, json_value, user_text, depth, qa, upload, pipeVars, jobs, threads,
                 checkpoints, meta, proc, deep_jobs, marked, trackerVars>>

\* A phase entry {"start": t} has end = 0 until "end" is set.
HasEnd(entry) == entry.end # 0

\* if job._last_phase_key and job._last_phase_key in job.phase_timings:
\*     prev = ...; if "end" not in prev: prev["end"] = now
EndLastPhase(t, now) ==
    LET last == t.last_phase_key IN
    IF last # "" /\ last \in DOMAIN t.phase_timings /\ ~HasEnd(t.phase_timings[last])
    THEN [t.phase_timings EXCEPT ![last].end = now]
    ELSE t.phase_timings

\* record_phase_timing starting the phase again whenever it is called.
RecordedAlwaysRestarts(t, phase_key, now) ==
    [t EXCEPT !.phase_timings =
                 [k \in DOMAIN EndLastPhase(t, now) \cup {phase_key} |->
                     IF k = phase_key THEN [start |-> now, end |-> 0]
                     ELSE EndLastPhase(t, now)[k]],
              !.last_phase_key = phase_key,
              !.now = now]

\* record_phase_timing(job_id, phase_key) under _lock, at clock reading now.
Recorded(t, phase_key, now) ==
    [t EXCEPT !.phase_timings =
                 [k \in DOMAIN EndLastPhase(t, now) \cup {phase_key} |->
                     IF k \in DOMAIN EndLastPhase(t, now) THEN EndLastPhase(t, now)[k]
                     ELSE [start |-> now, end |-> 0]],
              !.last_phase_key = phase_key,
              !.now = now]

\* _on_progress with a step: record_phase_timing(job_id, timing_key).
RecordPhaseTiming(step) ==
    /\ timing.last_phase_key # "upload"
    /\ timing.now < MaxTimingCalls
    /\ timing' = Recorded(timing, TimingKey(step), timing.now + 1)
    /\ UNCHANGED timingFrame

\* _run after the pipeline: record_phase_timing(job_id, "upload").
RecordUpload ==
    /\ timing.last_phase_key \notin {"", "upload"}
    /\ timing' = Recorded(timing, "upload", timing.now + 1)
    /\ UNCHANGED timingFrame

\* timings = finalize_timings(job_id), right after the upload phase began.
FinalizeTimings ==
    /\ timing.last_phase_key = "upload"
    /\ ~timing.finalized
    /\ timing' = [timing EXCEPT !.phase_timings = EndLastPhase(timing, timing.now + 1),
                                !.now = timing.now + 1,
                                !.finalized = TRUE]
    /\ UNCHANGED timingFrame

TimingStep ==
    \/ \E step \in Steps : RecordPhaseTiming(step)
    \/ RecordUpload
    \/ FinalizeTimings

InitTiming ==
    /\ TimingIdle
    /\ QAIdle
    /\ UploadIdle
    /\ llm_text = <<>>
    /\ json_value = Pending
    /\ user_text = {}
    /\ depth = ""
    /\ pc = "analysis"
    /\ batch = "none"
    /\ tasks = <<>>
    /\ sem = MAX_CONCURRENT_STUDIES
    /\ studies = <<>>
    /\ study_plan = <<>>
    /\ master_synthesis = 0
    /\ synthesis_score = 0
    /\ refine_round = 0
    /\ refinement_rounds = 0
    /\ n_regens = 0
    /\ errors_left = 0
    /\ killed_at = ""
    /\ resume_response = ""
    /\ jobs = [j \in JobIds |-> NoJob]
    /\ threads = NoThreads
    /\ checkpoints = [j \in JobIds |-> NoCheckpoint]
    /\ meta = [j \in JobIds |-> ""]
    /\ proc = "up"
    /\ deep_jobs = {}
    /\ marked = {}
    /\ TrackerIdle

SpecTiming == InitTiming /\ [][TimingStep]_vars

(***************************************************************************)
(* The worker of one job from start to its terminal status                  *)
(***************************************************************************)
\* Planner answers that yield at most one study.
SinglePlans == {out \in PlannerOutputs : Len(out.items) <= 1}

uploadFrame == <<llm_text, json_value, user_text, depth, qa, timing, pipeVars, jobs,
                 threads, checkpoints, meta, proc, deep_jobs, marked, trackerVars>>

WorkerRunning == threads[<<PipelineJob, "run", "running">>] > 0

\* `if settings.elevenlabs_api_key:` ... `if consolidated.strip():`
\* _upload_with_retry is entered: backoff = INITIAL_BACKOFF, attempt = 0.
UploadBegins ==
    /\ pc = "returned"
    /\ WorkerRunning
    /\ upload.st = "idle"
    /\ upload' = [st |-> "trying", attempt |-> 0]
    /\ UNCHANGED uploadFrame

\* return elevenlabs_client.upload_to_knowledge_base(...)
UploadReturns ==
    /\ WorkerRunning
    /\ upload.st = "trying"
    /\ upload' = [upload EXCEPT !.st = "done"]
    /\ UNCHANGED uploadFrame

\* UploadFails starting the attempts over after the last one.
UploadFailsStartsOver(is_server_error) ==
    /\ WorkerRunning
    /\ upload.st = "trying"
    /\ upload' = IF is_server_error
                 THEN [upload EXCEPT !.attempt = (upload.attempt + 1) % MAX_RETRIES]
                 ELSE [upload EXCEPT !.st = "done"]
    /\ UNCHANGED uploadFrame

\* except Exception: a 5xx before the last attempt sleeps and tries again;
\* anything else is raised, and _run catches it (the job goes on without a
\* knowledge-base document).
UploadFails(is_server_error) ==
    /\ WorkerRunning
    /\ upload.st = "trying"
    /\ upload' = IF is_server_error /\ upload.attempt < MAX_RETRIES - 1
                 THEN [upload EXCEPT !.attempt = upload.attempt + 1]
                 ELSE [upload EXCEPT !.st = "done"]
    /\ UNCHANGED uploadFrame

\* execute_deep_research for plans of at most one study.
WorkerPipelineStep ==
    \/ QueryAnalysis
    \/ \E out \in SinglePlans : Planning(out)
    \/ PlanningRaises
    \/ \E i \in DOMAIN tasks, d \in BOOLEAN, nq \in 0 .. 1 : StudyAcquire(i, d, nq)
    \/ \E i \in DOMAIN tasks, r \in BOOLEAN : DeepResearchReturns(i, r)
    \/ StudiesGathered
    \/ \E ne \in BOOLEAN : MasterSynthesisReturns(ne)
    \/ MasterSynthesisRaises
    \/ ClaimValidation
    \/ \E ev \in Evaluations : Evaluate(ev)
    \/ EvaluateRaises
    \/ GapStudiesGathered
    \/ \E ne \in BOOLEAN : RefinementReturns(ne)
    \/ RefinementRaises
    \/ \E f \in BOOLEAN, r \in BOOLEAN : EnhancedVerification(f, r)
    \/ \E kg \in BOOLEAN : StrategicAnalysis(kg)
    \/ \E r \in BOOLEAN : AnticipatedQA(r)

WorkerStep ==
    \/ RunBegins
    \/ WorkerRunning /\ WorkerPipelineStep
    \/ WorkerRunning /\ StudyStep
    \/ UploadBegins
    \/ UploadReturns
    \/ \E e \in BOOLEAN : UploadFails(e)
    \/ upload.st # "trying" /\ RunPublishes
    \/ RunCompletes
    \/ upload.st # "trying" /\ RunFails

\* POST /api/research created the job (PENDING) and started its thread; the
\* services may answer with as many transient errors as one call retries.
InitWorker ==
    /\ pc = "analysis"
    /\ batch = "none"
    /\ tasks = <<>>
    /\ sem = MAX_CONCURRENT_STUDIES
    /\ studies = <<>>
    /\ master_synthesis = 0
    /\ synthesis_score = 0
    /\ refine_round = 0
    /\ refinement_rounds = 0
    /\ n_regens = 0
    /\ errors_left = ROUND_MAX_RETRIES + 1
    /\ killed_at = ""
    /\ resume_response = ""
    /\ study_plan = <<>>
    /\ jobs = [j \in JobIds |->
                 IF j = PipelineJob THEN [status |-> "pending", error |-> ""]
                 ELSE NoJob]
    /\ threads = Spawn(NoThreads, PipelineJob, "run")
    /\ checkpoints = [j \in JobIds |-> NoCheckpoint]
    /\ meta = [j \in JobIds |-> ""]
    /\ proc = "up"
    /\ deep_jobs = {}
    /\ marked = {}
    /\ TrackerIdle
    /\ UnitsIdle

SpecWorker == InitWorker /\ [][WorkerStep]_vars

\* The worker thread is scheduled, the event loop runs every ready coroutine,
\* and every call to a service returns or raises.
SpecWorkerFair == SpecWorker /\ WF_vars(WorkerStep)

C2_PartialFailureIsolation ==
    [][(pc = "studies" /\ pc' \in {"master_synthesis", "returned"}) =>
          /\ Len(studies') = Len(tasks)
          /\ \A i \in DOMAIN tasks :
                /\ tasks[i].study_index = i - 1
                /\ tasks[i].st = "raised" => studies'[i].synthesis = 0
                /\ tasks[i].st = "returned" =>
                      studies'[i].synthesis = tasks[i].synthesis
                /\ studies'[i].synthesis \in {0, i}]_vars

\* C2 witness: every planned study has settled, one by raising and another
\* with a synthesis text.
C2_Witness ==
    /\ pc = "studies"
    /\ AllSettled
    /\ \E i, k \in DOMAIN tasks :
          /\ tasks[i].st = "raised"
          /\ tasks[k].st = "returned"
          /\ tasks[k].synthesis # 0

\* C3: run_iterative_study never executes more than max_rounds research
\* rounds, whatever the gap analyzer answers.
C3_BoundedRounds ==
    \A i \in DOMAIN tasks : tasks[i].rounds <= tasks[i].max_rounds

\* C3 witness: a study with the largest max_rounds reaches synthesis after
\* exactly max_rounds rounds.
C3_Witness ==
    \E i \in DOMAIN tasks :
        /\ tasks[i].st = "synth"
        /\ tasks[i].max_rounds = MaxRoundsParam
        /\ tasks[i].rounds = tasks[i].max_rounds

\* C4: the refinement loop performs at most max_refinement_rounds evaluations
\* and at most max_refinement_rounds synthesis regenerations.
C4_RefinementBounded ==
    /\ refine_round < max_refinement_rounds
    /\ refinement_rounds <= max_refinement_rounds
    /\ n_regens <= max_refinement_rounds

\* C4 witness: the loop has left after two evaluations and two regenerations.
C4_Witness ==
    /\ pc = "verification"
    /\ refinement_rounds = max_refinement_rounds
    /\ n_regens = max_refinement_rounds

\* C5: a DEEP job killed right after Study Execution and then resumed is taken
\* up again by an orchestrator (which re-enters at master synthesis with the
\* persisted study results): the resume request is accepted and starts it.
C5_ResumeAfterStudies ==
    (killed_at = "master_synthesis" /\ resume_response # "") =>
        /\ resume_response = "202"
        /\ threads[<<PipelineJob, "resume", "started">>] = 1

\* C6: once a numbered phase has completed and the next one has begun, the
\* stored checkpoint of the job is tagged with the completed phase's name.
C6_CheckpointNamesCompletedPhase ==
    /\ pc = "studies" => checkpoints[PipelineJob] = "planning"
    /\ pc = "master_synthesis" => checkpoints[PipelineJob] = "studies"
    /\ pc = "claim_validation" => checkpoints[PipelineJob] = "master_synthesis"

\* C7: within one process a job's status only moves PENDING -> RUNNING ->
\* {COMPLETED, FAILED}; FAILED -> RUNNING happens only when a resume thread
\* begins; a terminal entry is never written a second time.
C7_StatusMonotonic ==
    [][(proc = "down" /\ proc' = "up") \/
       \A j \in JobIds :
          \/ jobs'[j] = jobs[j]
          \/ <<jobs[j].status, jobs'[j].status>> \in
                {<<"none", "pending">>, <<"pending", "running">>,
                 <<"running", "completed">>, <<"running", "failed">>}
          \/ /\ jobs[j].status = "failed"
             /\ jobs'[j].status = "running"
             /\ threads[<<j, "resume", "started">>] > 0]_vars

\* C8: when the process has exited after a shutdown signal, every job that was
\* RUNNING when the signal arrived is FAILED with the "resume available"
\* marker in the Job Tracker.
C8_RunningJobsMarkedAtExit ==
    proc = "down" =>
        \A j \in deep_jobs :
            /\ jobs[j].status = "failed"
            /\ jobs[j].error = ShutdownError

\* C9 (as stated): a resume request for J starts an orchestrator only if J is
\* tracked as FAILED and has a checkpoint; every other request is rejected and
\* changes neither the tracker nor the checkpoint.
C9_ResumeOnlyTrackedFailed ==
    [][\A j \in JobIds :
          /\ threads'[<<j, "resume", "started">>] > threads[<<j, "resume", "started">>]
                => (jobs[j].status = "failed" /\ checkpoints[j] # NoCheckpoint)
          /\ (ResumeRequest(j)
                /\ ~(jobs[j].status = "failed" /\ checkpoints[j] # NoCheckpoint))
                => /\ resume_response' \in {"400", "404"}
                   /\ UNCHANGED <<jobs, checkpoints, threads>>]_vars

\* C9 (amended): a resume request for J starts an orchestrator only if J has a
\* checkpoint and is either tracked as FAILED or unknown to the tracker; every
\* other request is rejected and changes neither the tracker nor the checkpoint.
C9_ResumeFailedOrUntracked ==
    [][\A j \in JobIds :
          /\ threads'[<<j, "resume", "started">>] > threads[<<j, "resume", "started">>]
                => (jobs[j].status \in {"failed", "none"}
                    /\ checkpoints[j] # NoCheckpoint)
          /\ (ResumeRequest(j)
                /\ ~(jobs[j].status \in {"failed", "none"}
                     /\ checkpoints[j] # NoCheckpoint))
                => /\ resume_response' \in {"400", "404"}
                   /\ UNCHANGED <<jobs, checkpoints, threads>>]_vars

\* C9 witness: a resume request for a FAILED job with a checkpoint has been
\* accepted and its orchestrator thread started, while a tracked job that is
\* not FAILED has a checkpoint too and no resume thread.
C9_Witness ==
    /\ resume_response = "202"
    /\ \E j, k \in JobIds :
          /\ jobs[j].status = "failed"
          /\ checkpoints[j] # NoCheckpoint
          /\ threads[<<j, "resume", "started">>] = 1
          /\ jobs[k].status \in {"pending", "running", "completed"}
          /\ checkpoints[k] # NoCheckpoint
          /\ threads[<<k, "resume", "started">>] = 0

\* C10: at no time do two orchestrator threads drive the same job_id.
C10_OneOrchestratorPerJob == \A j \in JobIds : ThreadsOf(j) <= 1

\* C11: when every planned study succeeded and the first evaluation needs no
\* refinement (score at or above the threshold), the loop is left without a
\* refinement and the job's refinement_rounds is 0.
C11_NoRefinementCountsZero ==
    [][(/\ pc = "evaluation"
        /\ refine_round = 0
        /\ \A i \in DOMAIN studies : studies[i].synthesis # 0
        /\ pc' = "verification"
        /\ synthesis_score' >= REFINEMENT_THRESHOLD)
       => (n_regens' = 0 /\ refinement_rounds' = 0)]_vars

\* C12: when no study has a non-empty synthesis, execute_deep_research
\* returns (it does not raise) with master_synthesis = "" and no later phase
\* is started; a later phase runs only with some non-empty study synthesis.
C12_EarlyReturnWithoutStudies ==
    /\ pc \in {"master_synthesis", "claim_validation", "evaluation",
               "gap_studies", "refinement", "verification",
               "strategic_analysis", "qa"}
          => SelectNonEmpty(studies) # <<>>
    /\ (pc \in {"returned", "raised"} /\ studies # <<>>
            /\ SelectNonEmpty(studies) = <<>>)
          => /\ pc = "returned"
             /\ master_synthesis = 0
             /\ synthesis_score = 0
             /\ refinement_rounds = 0
             /\ n_regens = 0

\* C12 witness: two planned studies both ended with empty synthesis and the
\* pipeline has returned.
C12_Witness ==
    /\ pc = "returned"
    /\ Len(studies) = 2
    /\ SelectNonEmpty(studies) = <<>>

\* C13: whatever text the planner returns, planning does not raise and hands
\* a non-empty plan of study dicts to Study Execution; a plan that is not the
\* planner's own array is the single study titled by the query.
C13_PlanningNeverAborts ==
    [][(pc = "planning" /\ study_plan' # study_plan) =>
          /\ pc' = "studies"
          /\ Len(study_plan') >= 1
          /\ Len(tasks') = Len(study_plan')
          /\ \A i \in DOMAIN study_plan' : study_plan'[i] \in {"study", "query"}
          /\ (\E i \in DOMAIN study_plan' : study_plan'[i] = "query")
                => study_plan' = <<"query">>]_vars

\* C14: a malformed gap-analyzer answer (not an object, `escalate` absent or
\* not a boolean, `gaps` not a list of question strings) acts as
\* {escalate: true, gaps: []}: the study starts no further round and goes to
\* its synthesis.
C14_MalformedGapOutputStops ==
    [][\A i \in DOMAIN tasks : \A out \in GapOutputs :
          (/\ \/ ~out.dict
              \/ out.escalate \notin {"true", "false"}
              \/ out.kind # "list"
           /\ GapAnalysisReturns(i, out))
          => tasks'[i].st = "synth"]_vars

\* C15: an exception raised in a best-effort phase (query analysis, claim
\* validation, the evaluation call, enhanced verification, strategic analysis)
\* never leaves the pipeline, and the briefing the job had is kept: the step
\* that ends such a phase goes on to a later phase with a non-empty briefing
\* where there was one.
C15_BestEffortPhasesNeverRaise ==
    [][(pc \in {"analysis", "claim_validation", "evaluation", "verification",
                "strategic_analysis"})
       => (/\ pc' # "raised"
           /\ (master_synthesis # 0 /\ pc' # "killed") => master_synthesis' # 0)]_vars

\* C16: when the planning call, the master-synthesis call or the Q&A
\* generation call raises, execute_deep_research does not raise: the step that
\* ends such a call never leaves the pipeline by an exception.
C16_LoadBearingCallsNeverRaise ==
    [][((pc = "planning" /\ study_plan' = study_plan)
        \/ pc \in {"master_synthesis", "qa"})
       => pc' # "raised"]_vars

\* C17: once the master synthesis is non-empty, no step of the run replaces it
\* by the empty text: a regeneration that yields nothing keeps the previous
\* text and ends the refinement loop, and a verification pass that yields
\* nothing (or raises) leaves the text as it was.
C17_MasterSynthesisNeverEmptied ==
    [][/\ (master_synthesis # 0 /\ pc' # "killed") => master_synthesis' # 0
       /\ (pc = "refinement" /\ n_regens' = n_regens + 1
           /\ master_synthesis' = master_synthesis /\ pc' # "raised")
             => pc' = "verification"
       /\ (pc = "verification" /\ pc' # "killed")
             => master_synthesis' \in {master_synthesis, master_synthesis + 1}]_vars

\* An empty regeneration ended the loop and the first text went on unchanged
\* through verification.
C17_Witness ==
    pc = "strategic_analysis" /\ n_regens = 1 /\ master_synthesis = 1

\* C18: once the study phase has filled the study list, every step of the run
\* keeps the earlier list as a prefix of the current one: no entry is removed,
\* reordered or given another synthesis; gap studies are only appended.
C18_StudiesOnlyAppended ==
    [][(studies # <<>> /\ pc' # "killed") =>
          /\ Len(studies') >= Len(studies)
          /\ SubSeq(studies', 1, Len(studies)) = studies]_vars

\* Gap studies were appended behind the planned studies, one of which failed.
C18_Witness ==
    /\ pc = "refinement"
    /\ Len(studies) > Len(study_plan)
    /\ \E i \in 1 .. Len(study_plan) : studies[i].synthesis = 0

C20_JobAccessUnderLock ==
    \A t \in TrackerThreads : AccessesJob(t) => lock = t

\* C21: for a well-formed JSON array or object J wrapped in any number of
\* markdown fences and preceded by prose, parse_json_response returns J itself
\* (an object holding a nested array comes back as the object), and it
\* returns None for a text without well-formed JSON.
C21_ParseReturnsInnermostJson ==
    json_value # Pending =>
        /\ \A J \in JsonDocs, p \in 0 .. MaxProse, f \in 0 .. MaxFences :
              llm_text = Wrapped(J, p, f) => json_value = J
        /\ llm_text \in NoJsonTexts => json_value = None

\* C22: detect_depth returns the depth of the longest keyword occurring in
\* the text (a text with both "quick research" and "in-depth" is QUICK), and
\* STANDARD when no keyword occurs.
C22_LongestKeywordWins ==
    depth # "" =>
        /\ user_text = {} => depth = "standard"
        /\ \A kw \in user_text :
              (\A other \in user_text \ {kw} : KeywordLen[other] < KeywordLen[kw])
                 => depth = (IF kw \in DEEP_KEYWORDS THEN "deep" ELSE "quick")

C24_BoundedRetriesWithBackoff ==
    [][\A i \in DOMAIN tasks :
          /\ tasks[i].retry <= ROUND_MAX_RETRIES
          /\ \A r \in BOOLEAN :
                (ResearchRoundFails(i, r) \/ GapAnalysisFails(i, r))
                => IF r /\ tasks[i].retry + 1 \in {1, 2}
                   THEN /\ tasks'[i].st = tasks[i].st
                        /\ tasks'[i].retry = tasks[i].retry + 1
                        /\ tasks'[i].wait = 5 * (tasks[i].retry + 1)
                   ELSE tasks'[i].st = "raised"
          /\ (ResearchRoundDone(i) \/ \E out \in GapOutputs : GapAnalysisReturns(i, out))
                => (tasks'[i].retry = 0 /\ tasks'[i].wait = 0)]_vars

\* The third attempt of a gap-analysis call is under way, after waits of 5
\* and 10 seconds.
C24_Witness ==
    \E i \in DOMAIN tasks :
        tasks[i].st = "gap" /\ tasks[i].retry = ROUND_MAX_RETRIES /\ tasks[i].wait = 10

\* C25: at every moment at most MAX_CONCURRENT_STUDIES studies (original and
\* gap studies alike) hold a permit of the semaphore, and a permit is held
\* only by a study that was admitted and has not yet returned or raised.
C25_StudySlotsBounded ==
    /\ StudiesAdmitted <= MAX_CONCURRENT_STUDIES
    /\ sem + StudiesAdmitted = MAX_CONCURRENT_STUDIES
    /\ AllSettled => sem = MAX_CONCURRENT_STUDIES

\* All permits are taken again after a study has settled: the study that had
\* to wait took the permit the settled one gave back.
C25_Witness ==
    /\ StudiesAdmitted = MAX_CONCURRENT_STUDIES
    /\ Len(tasks) > MAX_CONCURRENT_STUDIES
    /\ \E i \in DOMAIN tasks : Settled(tasks[i])

\* C26: with more planned studies than permits the excess studies wait and
\* are admitted later: Study Execution ends with one StudyResult per planned
\* study.
C26_ExcessStudiesQueue ==
    (pc = "studies") ~>
        (/\ pc \in {"master_synthesis", "returned"}
         /\ Len(studies) = Len(study_plan)
         /\ tasks = <<>>)

\* Study Execution ended with more results than the semaphore has permits.
C26_Witness ==
    /\ pc \in {"master_synthesis", "returned"}
    /\ Len(studies) > MAX_CONCURRENT_STUDIES
    /\ Len(studies) = Len(study_plan)

\* C27: an evaluation leads into a refinement round exactly when its score is
\* below 8.0 or some gap is high-priority, and it lists actionable gap
\* questions; the round launches min(actionable, 6) gap studies, each a
\* run_iterative_study with its own rounds; the regeneration call is reached
\* only from the gather that has appended the non-empty gap results to
\* result.studies, and leaves the list as it is.
C27_RefinementRoundEntry ==
    [][/\ \A ev \in WideEvaluations : Evaluate(ev) =>
             /\ (pc' = "gap_studies") <=>
                   /\ ev.overall_score < REFINEMENT_THRESHOLD \/ ev.high
                   /\ ev.actionable > 0
             /\ pc' = "gap_studies" =>
                   /\ Len(tasks') = Min(ev.actionable, MaxGapStudies)
                   /\ Len(tasks') <= 6
                   /\ \A i \in DOMAIN tasks' :
                         /\ tasks'[i].st = "waiting"
                         /\ tasks'[i].max_rounds = GapStudyMaxRounds
                         /\ tasks'[i].rounds = 0
             /\ pc' # "gap_studies" => pc' = "verification" /\ tasks' = tasks
       /\ pc # "refinement" /\ pc' = "refinement" =>
             /\ pc = "gap_studies"
             /\ \A i \in DOMAIN tasks :
                   tasks[i].synthesis # 0 => tasks[i].rounds \in 1 .. GapStudyMaxRounds
             /\ Len(studies') > Len(studies)
             /\ studies' = studies \o SelectNonEmpty(GatheredResults)
       /\ pc = "refinement" => studies' = studies]_vars

\* After a round that appended a gap study and regenerated the synthesis, a
\* second evaluation with more than six actionable gaps has launched six gap
\* studies.
C27_Witness ==
    /\ pc = "gap_studies"
    /\ Len(tasks) = MaxGapStudies
    /\ n_regens > 0
    /\ Len(studies) > Len(study_plan)

\* C28: at most 5 clusters are researched; once the anticipator has produced
\* clusters the Q&A phase does not raise; when it returns, every researched
\* cluster has its QAClusterResult, a cluster that failed or was malformed
\* has empty findings and no part in qa_summary, and every other cluster's
\* findings are in its result and in qa_summary.
C28_FailedClusterIsolated ==
    /\ Len(qa.tasks) <= MaxQAClusters
    /\ qa.clusters # <<>> => qa.pc # "raised"
    /\ qa.pc = "returned" /\ qa.clusters # <<>> =>
          /\ Len(qa.qa_clusters) = Len(qa.clusters)
          /\ \A k \in DOMAIN qa.tasks :
                qa.qa_clusters[k].findings =
                   IF qa.tasks[k].failed THEN 0 ELSE qa.tasks[k].findings
          /\ \A k \in DOMAIN qa.tasks :
                (\E j \in DOMAIN qa.qa_summary : qa.qa_summary[j] = FindingsText(k))
                   <=> ~qa.tasks[k].failed /\ qa.tasks[k].findings # 0

\* C29: at any time at most one recorded phase lacks its 'end', and it is the
\* phase of the most recently recorded key; a call never changes a 'start'
\* or an 'end' that is set; after finalize_timings every recorded phase has
\* 'start' and 'end'.
C29_PhaseTimingsWellFormed ==
    [][/\ \A k \in DOMAIN timing'.phase_timings :
             /\ timing'.phase_timings[k].start # 0
             /\ ~HasEnd(timing'.phase_timings[k]) => k = timing'.last_phase_key
             /\ timing'.finalized => HasEnd(timing'.phase_timings[k])
       /\ \A k \in DOMAIN timing.phase_timings :
             /\ k \in DOMAIN timing'.phase_timings
             /\ timing'.phase_timings[k].start = timing.phase_timings[k].start
             /\ HasEnd(timing.phase_timings[k]) =>
                   timing'.phase_timings[k].end = timing.phase_timings[k].end]_vars

\* A phase key came back after another phase had begun (two studies around a
\* synthesis step), and the timings were finalized.
C29_Witness ==
    /\ timing.finalized
    /\ Cardinality(DOMAIN timing.phase_timings) >= 3
    /\ timing.now > Cardinality(DOMAIN timing.phase_timings) + 1

====
